---------------------------- MODULE Spec2Model ----------------------------
(***************************************************************************)
(* State-machine model of the MLOps dashboard backend core:                *)
(*   - CacheManager            (src/backend/cache_manager.py)              *)
(*   - BackgroundTaskManager   (src/backend/background_tasks.py)           *)
(*   - ConnectionManager       (src/backend/backend_simple.py)             *)
(*   - websocket_endpoint, prediction tracking, health monitoring, the     *)
(*     activity log and the predict endpoint (backend_simple.py)           *)
(*   - cache_result            (src/backend/cache_manager.py)              *)
(*   - cleanup_old_logs        (src/backend/utils/cleanup.py)              *)
(* Each component has its own specification (CacheSpec, TaskSpec,          *)
(* ConnSpec, ...) over the shared variable list; a specification leaves    *)
(* the other components' variables at their constructed values.            *)
(***************************************************************************)
EXTENDS Integers, Sequences, FiniteSets, TLC

(***************************************************************************)
(* Generic helpers                                                         *)
(***************************************************************************)
Max(a, b) == IF a >= b THEN a ELSE b
Min(a, b) == IF a <= b THEN a ELSE b
Range(s) == {s[i] : i \in 1..Len(s)}
Remove(s, x) == SelectSeq(s, LAMBDA y : y # x)

(***************************************************************************)
(* CacheManager (src/backend/cache_manager.py): bounds of the model        *)
(***************************************************************************)
\* keys the callers use with a small cache
NumKeys == 3
\* largest capacity of a small cache
MaxCacheSize == 2
\* capacity of the large cache, for which the eviction quota size div 10
\* exceeds 1
BulkSize == 20
\* how many of the large cache's entries may be stored with a short ttl
BulkShort == 2
\* calls made on the large cache once it is full
BulkOps == 3
\* default_ttl constructor argument (300 in the global instance), scaled
default_ttl == 2
\* the clock time.time() runs from 0 to MaxTime
MaxTime == 2
\* number of get/set/delete/cleanup_expired calls made on a small cache
MaxOps == 4

Keys == 1..NumKeys
\* ttl: Optional[int].  <<>> is None (argument omitted), <<n>> is the integer n:
\* omitted, zero, and the positive ttl of the spec's example (ttl=1)
TtlArgs == {<<>>, <<0>>, <<1>>}

VARIABLES
    \* ---- CacheManager ----
    cache,           \* self._cache mapping: key -> [value, expiry, access]
    cache_order,     \* self._cache key order (OrderedDict), oldest first
    stats,           \* self._stats counters
    max_cache_size,  \* self._max_cache_size
    cnow,            \* time.time()
    \* what the caller of the last cache call observes
    ccall,           \* the call: [op, key, value, ttl, t, t2]
    cret,            \* its return value: <<>> is None, <<x>> is x
    cpre,            \* the cache as it was when the call started
    used,            \* keys in order of their last use (set or get hit)
    nops,            \* number of calls made so far
    nkeys            \* number of distinct keys the callers have stored so far

cacheVars == <<cache, cache_order, stats, max_cache_size, cnow,
               ccall, cret, cpre, used, nops, nkeys>>

(***************************************************************************)
(* BackgroundTaskManager (src/backend/background_tasks.py): bounds         *)
(***************************************************************************)
\* calls of the manager's methods (register_periodic_task, start_all_tasks,
\* stop_task, shutdown) in a run
MaxCalls == 4
\* invocations of one PeriodicTask's callable in a run
MaxRuns == 2

\* task ids the callers register
TaskIds == {1, 2}
\* what a registered callable does when invoked: it raises an Exception
\* every time, or it returns or raises, either being possible every time
Funcs == {"raises", "either"}
\* initial_delay: none, or some
Delays == {0, 1}

VARIABLES
    \* ---- BackgroundTaskManager ----
    periodic_tasks,  \* self._periodic_tasks: task_id -> PeriodicTask (index in objs)
    objs,            \* the PeriodicTask objects created so far, and for each the
                     \* number of invocations of its callable (calls)
    tasks,           \* self._tasks: task_id -> asyncio.Task (index in loops)
    loops,           \* the asyncio.Tasks running _run_periodic_task
    shutdown_event,  \* self._shutdown_event
    executor_down,   \* self._executor has been shut down
    stops,           \* stop_task calls suspended in "await task": the task_id,
                     \* the loop awaited, and which call of the run it is
    sd,              \* the shutdown call: where it is, the tasks it waits for
    ncalls,          \* calls of the manager's methods so far
    restarted        \* the task ids for which start_all_tasks has been called
                     \* since they were last registered

taskVars == <<periodic_tasks, objs, tasks, loops, shutdown_event, executor_down,
              stops, sd, ncalls>>

(***************************************************************************)
(* ConnectionManager (src/backend/backend_simple.py): bounds               *)
(***************************************************************************)
\* clients that open a websocket in a run; each comes with its own transport
\* and a fresh uuid4 as client_id
NumClients == 3
\* self.max_connections, scaled down from 100
max_connections == 2
\* broadcast_json calls in a run
NumBroadcasts == 2
\* steps of the clock in a run
MaxTicks == 3
\* disconnect calls for one websocket in a run
MaxDisconnects == 2
\* calls of the manager's methods (connect, disconnect, update_ping,
\* broadcast_json) and moves of the environment (a client closes, the clock
\* advances) in a run
MaxConnCalls == 6

\* the close code of a rejected connect, and of a stale connection
CloseOverloaded == 1013
CloseTimeout == 1000

\* self.cleanup_interval
cleanup_interval == 300
\* _cleanup_if_needed: a connection is stale after this long without a ping
StaleAfter == 120
\* broadcast_json: a low priority message skips connections silent this long
SlowAfter == 30
\* the clock is read in steps of a third of a cleanup interval: a connection
\* that pings at every step is never stale, one that misses a step is
TickSeconds == cleanup_interval \div 3

\* frames of a client that the server has not read yet, at most
MaxInbox == 2
\* connects, frames, closes and clock ticks in a run of the endpoint handlers
MaxEndpointCalls == 5
\* "await asyncio.sleep(5)" and "if current_time - last_metrics_time < 5"
MetricsEvery == 5
\* the timestamps a ping carries
Stamps == {1, 2}

Clients == 1..NumClients
Broadcasts == 1..NumBroadcasts
Priorities == {"normal", "low"}

VARIABLES
    \* ---- ConnectionManager ----
    active_connections, \* self.active_connections: client_id -> conn_info
    entries,            \* the dict's entry array: the client ids in insertion
                        \* order, those of deleted entries included
    last_cleanup,       \* self.last_cleanup
    wnow,               \* time.time()
    conn,               \* per client (websocket): the client_id its connect call
                        \* was given (id, 0 for none), where the call is (pc,
                        \* stale, and the websocket its cleanup is closing), and
                        \* what is remembered about it: lapsed (its heartbeat has
                        \* at some time been more than StaleAfter old), due (the
                        \* connections that were stale when its connect made the
                        \* cleanup check), ran (that check found a cleanup due),
                        \* disconnects (the disconnect calls for its websocket),
                        \* code (the code the server closed its websocket with)
    broken,             \* transports on which a send raises (closed by the
                        \* client, or closed by the server)
    bc,                 \* per broadcast_json call: where it is
    wcalls,             \* calls and moves of the environment so far
    \* ---- websocket_endpoint ----
    ep                  \* per client's endpoint handler: where its receive task
                        \* (recv) and its metrics loop (main) are, the frames
                        \* the client has sent that are not yet read (inbox),
                        \* the timestamp of the pong under way (pong), the
                        \* messages delivered to the client (got), the time the
                        \* metrics loop went to sleep (slept_at),
                        \* last_metrics_time, and what is remembered: the
                        \* time of the latest system_metrics message that
                        \* went out (last_sent, before the clock's start
                        \* for none), hung_up
                        \* (the client has closed), left (the handler has
                        \* called manager.disconnect)

connVars == <<active_connections, entries, last_cleanup, wnow, conn, broken, bc, wcalls, ep>>

VARIABLES
    \* ---- prediction_tracking ----
    prediction_history,       \* prediction_tracking["prediction_history"]:
                              \* model_id -> deque of prediction records
    active_model_metrics,     \* model_id -> metrics["total_predictions"]
    memory_stats,             \* prediction_tracking["memory_stats"]
    prediction_tracking_lock, \* the thread that holds the lock, 0 for none
    thread,                   \* per thread: the call it is in and where, and
                              \* whether it has ever called while another
                              \* thread held the lock (waited)
    pnow,                     \* time.time(), in hours
    pcalls,                   \* calls made so far
    requested,                \* per model, the inputs that
                              \* log_prediction_with_metrics was called with
    log_order,                \* per model, every record appended to its
                              \* history so far, in the order of the appends
    cleaned                   \* per model, the records a cleanup has dropped

predVars == <<prediction_history, active_model_metrics, memory_stats,
              prediction_tracking_lock, thread, pnow, pcalls, requested, log_order, cleaned>>

VARIABLES
    previous_system_health, \* the module-level global
    cpu_percent,            \* what psutil reports now
    hc,                     \* per metrics loop: position in the coroutine, its current_health
    health_events,          \* health_change events handed to the broadcast, in order
    alerts_store,           \* alerts created by the health monitor, in order
    computed,               \* levels computed by the metrics loops, in order of their checks
    hcalls

healthVars == <<previous_system_health, cpu_percent, hc, health_events, alerts_store,
                computed, hcalls>>

VARIABLES
    cache_lock,  \* self._lock: the thread that holds it, 0 for none
    cthread,     \* per thread: the call it makes (op, key, value, ttl), where it is
                 \* (pc), what it has read (t, got, keys), and what the call returned
                 \* (ret: <<>> is None, <<-1>> a KeyError)
    tcalls       \* calls made so far

cthreadVars == <<cache_lock, cthread, tcalls>>

VARIABLES
    activity_log,   \* the module-level list, index 1 is activity_log[0]
    max_entries,    \* cleanup_policies["logs"]["max_entries"]
    acall,          \* the last call made
    aresult,        \* what the last cleanup_old_logs returned
    acalls          \* calls made so far

activityVars == <<activity_log, max_entries, acall, aresult, acalls>>

VARIABLES
    wrapper,    \* the wrapper call under way: where it is, its key, the function's result
    wrapped,    \* what the last wrapper call returned, and for which key
    invoked,    \* per key, how often the decorated function has been invoked
    rcalls      \* wrapper calls made so far

wrapperVars == <<wrapper, wrapped, invoked, rcalls>>

VARIABLES
    models_store,        \* model_id -> predictions_made
    predictions_logged,  \* per model id, the predictions handed to log_prediction_with_metrics
    prediction_events,   \* prediction_logged events handed to the broadcast
    request,             \* per request: where the handler is, the model_id asked for, the response
    qcalls               \* requests and trainings so far

predictVars == <<models_store, predictions_logged, prediction_events, request, qcalls>>

vars == <<cache, cache_order, stats, max_cache_size, cnow,
          ccall, cret, cpre, used, nops, nkeys,
          periodic_tasks, objs, tasks, loops, shutdown_event, executor_down,
          stops, sd, ncalls,
          active_connections, entries, last_cleanup, wnow, conn, broken, bc, wcalls, ep,
          prediction_history, active_model_metrics, memory_stats,
          prediction_tracking_lock, thread, pnow, pcalls, requested, log_order, cleaned,
          restarted,
          previous_system_health, cpu_percent, hc, health_events, alerts_store, computed, hcalls,
          cache_lock, cthread, tcalls,
          activity_log, max_entries, acall, aresult, acalls,
          wrapper, wrapped, invoked, rcalls,
          models_store, predictions_logged, prediction_events, request, qcalls>>

(***************************************************************************)
(* CacheManager.__init__                                                   *)
(***************************************************************************)
NoCall == [op |-> "none", key |-> 0, value |-> 0, ttl |-> <<>>, t |-> 0, t2 |-> 0]
EmptyPre == [cache |-> <<>>, order |-> <<>>, stats |-> <<>>, used |-> <<>>]

CacheConstructed(size) ==
    /\ cache = <<>>
    /\ cache_order = <<>>
    /\ stats = [hits |-> 0, misses |-> 0, evictions |-> 0, expired |-> 0, sets |-> 0]
    /\ max_cache_size = size
    /\ cnow = 0
    /\ ccall = NoCall
    /\ cret = <<>>
    /\ cpre = EmptyPre
    /\ used = <<>>
    /\ nops = 0
    /\ nkeys = 0

Snapshot == [cache |-> cache, order |-> cache_order, stats |-> stats, used |-> used]

\* the entries of mapping c restricted to the keys of sequence o
Restrict(c, o) == [k \in Range(o) |-> c[k]]

\* OrderedDict: self._cache[key] = ... keeps the place of an existing key
\* and puts a new key last
AssignKey(o, k) == IF k \in Range(o) THEN o ELSE Append(o, k)

\* a use that does not refresh the recency order
move_to_end_forgotten(o, k) == o

\* OrderedDict.move_to_end(key)
move_to_end(o, k) == Append(Remove(o, k), k)

\* an expiry test that is off by one
IsExpiredStrict(entry, t) == t > entry.expiry

\* expiry test used by get, _evict_entries and cleanup_expired
IsExpired(entry, t) == t >= entry.expiry

(***************************************************************************)
(* CacheManager._evict_entries(count=None), called with the lock held.     *)
(* Returns the new order, mapping and counters.                            *)
(***************************************************************************)
\* a quota without its minimum of 1
EvictQuotaNoMin(o) == Len(o) \div 10

\* count = max(1, len(self._cache) // 10)
EvictQuota(o) == Max(1, Len(o) \div 10)

ExpiredKeys(c, o, t) == {k \in Range(o) : IsExpired(c[k], t)}

\* an eviction that pops the oldest entries without removing expired ones first
evict_entries_lru_only(c, o, s, t) ==
    LET npop == Min(Len(o), EvictQuota(o))
        o2 == SubSeq(o, npop + 1, Len(o))
    IN  [cache |-> Restrict(c, o2), order |-> o2,
         stats |-> [s EXCEPT !.evictions = @ + npop]]

evict_entries(c, o, s, t) ==
    IF o = <<>> THEN [cache |-> c, order |-> o, stats |-> s]
    ELSE
      LET count == EvictQuota(o)
          expired_keys == ExpiredKeys(c, o, t)
          o1 == SelectSeq(o, LAMBDA k : k \notin expired_keys)
          evicted1 == Cardinality(expired_keys)
          \* while evicted < count and self._cache: popitem(last=False)
          npop == Min(Len(o1), Max(0, count - evicted1))
          o2 == SubSeq(o1, npop + 1, Len(o1))
      IN  [cache |-> Restrict(c, o2),
           order |-> o2,
           stats |-> [s EXCEPT !.expired = @ + evicted1,
                               !.evictions = @ + npop]]

(***************************************************************************)
(* CacheManager.get                                                        *)
(***************************************************************************)
get(k) ==
    /\ nops' = nops + 1
    /\ cpre' = Snapshot
    /\ ccall' = [op |-> "get", key |-> k, value |-> 0, ttl |-> <<>>, t |-> cnow, t2 |-> cnow]
    /\ IF k \notin DOMAIN cache
       THEN /\ stats' = [stats EXCEPT !.misses = @ + 1]
            /\ cret' = <<>>
            /\ UNCHANGED <<cache, cache_order, used>>
       ELSE IF IsExpired(cache[k], cnow)
       THEN /\ cache_order' = Remove(cache_order, k)
            /\ cache' = Restrict(cache, cache_order')
            /\ stats' = [stats EXCEPT !.expired = @ + 1, !.misses = @ + 1]
            /\ cret' = <<>>
            /\ used' = Remove(used, k)
       ELSE /\ cache' = [cache EXCEPT ![k].access = cnow]
            /\ cache_order' = move_to_end(AssignKey(cache_order, k), k)
            /\ stats' = [stats EXCEPT !.hits = @ + 1]
            /\ cret' = <<cache[k].value>>
            /\ used' = Append(Remove(used, k), k)
    /\ UNCHANGED <<max_cache_size, cnow, nkeys>>

(***************************************************************************)
(* CacheManager.set.  t is the time set reads; t2 >= t is the time         *)
(* _evict_entries reads with its own time.time() call.                     *)
(***************************************************************************)
\* ttl or self._default_ttl
EffectiveTtl(ttl) == IF ttl = <<>> \/ ttl[1] = 0 THEN default_ttl ELSE ttl[1]

set(k, v, ttl) ==
    /\ nops' = nops + 1
    /\ nkeys' = Max(nkeys, k)
    /\ cpre' = Snapshot
    /\ \E t2 \in cnow..Min(cnow + 1, MaxTime) :
         LET t == cnow
             expiry == t + EffectiveTtl(ttl)
             must_evict == k \notin DOMAIN cache /\ Len(cache_order) >= max_cache_size
             ev == IF must_evict
                   THEN evict_entries(cache, cache_order, stats, t2)
                   ELSE [cache |-> cache, order |-> cache_order, stats |-> stats]
             now2 == IF must_evict THEN t2 ELSE t
             o3 == move_to_end(AssignKey(ev.order, k), k)
         IN  /\ (~must_evict => t2 = cnow)
             /\ cache_order' = o3
             /\ cache' = [x \in Range(o3) |->
                            IF x = k THEN [value |-> v, expiry |-> expiry, access |-> t]
                            ELSE ev.cache[x]]
             /\ stats' = [ev.stats EXCEPT !.sets = @ + 1]
             /\ cnow' = now2
             /\ ccall' = [op |-> "set", key |-> k, value |-> v, ttl |-> ttl,
                          t |-> t, t2 |-> now2]
             /\ used' = Append(SelectSeq(used, LAMBDA x : x \in Range(ev.order) /\ x # k), k)
    /\ cret' = <<>>
    /\ UNCHANGED max_cache_size

(***************************************************************************)
(* CacheManager.delete                                                     *)
(***************************************************************************)
delete(k) ==
    /\ nops' = nops + 1
    /\ cpre' = Snapshot
    /\ ccall' = [op |-> "delete", key |-> k, value |-> 0, ttl |-> <<>>, t |-> cnow, t2 |-> cnow]
    /\ IF k \in DOMAIN cache
       THEN /\ cache_order' = Remove(cache_order, k)
            /\ cache' = Restrict(cache, cache_order')
            /\ used' = Remove(used, k)
            /\ cret' = <<TRUE>>
       ELSE /\ cret' = <<FALSE>>
            /\ UNCHANGED <<cache, cache_order, used>>
    /\ UNCHANGED <<stats, max_cache_size, cnow, nkeys>>

(***************************************************************************)
(* CacheManager.cleanup_expired                                            *)
(***************************************************************************)
\* stats that count the removed entries as evictions
CountEvicted(s, n) == [s EXCEPT !.evictions = @ + n]

\* "self._stats["expired"] += 1" for each of the n removed entries
CountExpired(s, n) == [s EXCEPT !.expired = @ + n]

cleanup_expired ==
    /\ nops' = nops + 1
    /\ cpre' = Snapshot
    /\ ccall' = [op |-> "cleanup_expired", key |-> 0, value |-> 0, ttl |-> <<>>,
                 t |-> cnow, t2 |-> cnow]
    /\ LET expired_keys == ExpiredKeys(cache, cache_order, cnow)
       IN  /\ cache_order' = SelectSeq(cache_order, LAMBDA k : k \notin expired_keys)
           /\ cache' = Restrict(cache, cache_order')
           /\ used' = SelectSeq(used, LAMBDA k : k \notin expired_keys)
           /\ stats' = CountExpired(stats, Cardinality(expired_keys))
           /\ cret' = <<Cardinality(expired_keys)>>
    /\ UNCHANGED <<max_cache_size, cnow, nkeys>>

\* the clock advances between calls
CacheTick ==
    /\ cnow < MaxTime
    /\ cnow' = cnow + 1
    /\ UNCHANGED <<cache, cache_order, stats, max_cache_size, ccall, cret, cpre,
                   used, nops, nkeys>>

(***************************************************************************)
(* The callers.  Keys are opaque strings, so a caller that stores a key    *)
(* for the first time takes the next unused one (nkeys + 1); that key also *)
(* stands for every key never stored when it is read or deleted.  Every    *)
(* set stores a value of its own (the number of the call).                 *)
(***************************************************************************)
KnownKeys == 1..Min(nkeys + 1, NumKeys)

\* a small cache: every sequence of MaxOps calls
SmallCalls ==
    /\ max_cache_size <= MaxCacheSize
    /\ nops < MaxOps
    /\ \/ \E k \in KnownKeys : get(k)
       \/ \E k \in KnownKeys, ttl \in TtlArgs : set(k, nops + 1, ttl)
       \/ \E k \in KnownKeys : delete(k)
       \/ cleanup_expired
       \/ CacheTick

\* a cache with room for every key the callers use: it is written with new
\* keys and cleaned, and time passes
RoomyCalls ==
    /\ max_cache_size = NumKeys
    /\ nops < MaxOps
    /\ \/ /\ nkeys < NumKeys
          /\ \E ttl \in TtlArgs : set(nkeys + 1, nops + 1, ttl)
       \/ cleanup_expired
       \/ CacheTick

\* the large cache is filled at time 0, the first BulkShort keys with
\* either ttl, the others with the default ttl
BulkFill ==
    /\ max_cache_size = BulkSize
    /\ nkeys < BulkSize
    /\ \E ttl \in (IF nkeys < BulkShort THEN {<<>>, <<1>>} ELSE {<<>>}) :
         set(nkeys + 1, nops + 1, ttl)

\* then it is read, written with new keys, and time passes
BulkCalls ==
    /\ max_cache_size = BulkSize
    /\ nkeys >= BulkSize
    /\ nops < BulkSize + BulkOps
    /\ \/ \E k \in 1..(BulkShort + 1) : get(k)
       \/ \E ttl \in TtlArgs : set(nkeys + 1, nops + 1, ttl)
       \/ CacheTick

(***************************************************************************)
(* BackgroundTaskManager.__init__                                          *)
(***************************************************************************)
TaskConstructed ==
    /\ periodic_tasks = <<>>
    /\ objs = <<>>
    /\ tasks = <<>>
    /\ loops = <<>>
    /\ shutdown_event = FALSE
    /\ executor_down = FALSE
    /\ stops = {}
    /\ ncalls = 0
    /\ sd = [pc |-> "idle", waits |-> {}, timed_out |-> FALSE]
    /\ restarted = {}

\* dict assignment d[k] = v and del d[k]
Put(d, k, v) == [x \in DOMAIN d \cup {k} |-> IF x = k THEN v ELSE d[x]]
Drop(d, k) == [x \in DOMAIN d \ {k} |-> d[x]]

\* PeriodicTask.__init__
PeriodicTask(task_id, func, interval_seconds, initial_delay) ==
    [task_id |-> task_id, func |-> func, interval_seconds |-> interval_seconds,
     initial_delay |-> initial_delay, last_run |-> 0, run_count |-> 0,
     error_count |-> 0, calls |-> 0]

\* asyncio.Task.done()
Done(loop) == loop.pc \in {"done", "cancelled"}

\* asyncio.Task.cancel(): a request, delivered at the task's next step
Cancel(loop) == IF Done(loop) THEN loop ELSE [loop EXCEPT !.cancel = TRUE]

(***************************************************************************)
(* register_periodic_task                                                  *)
(***************************************************************************)
register_periodic_task(task_id, func, interval_seconds, initial_delay) ==
    /\ objs' = Append(objs, PeriodicTask(task_id, func, interval_seconds, initial_delay))
    /\ periodic_tasks' = Put(periodic_tasks, task_id, Len(objs) + 1)
    /\ UNCHANGED <<tasks, loops, shutdown_event, executor_down, stops, sd>>

(***************************************************************************)
(* start_all_tasks: one loop for every registered task that has no entry   *)
(* in self._tasks or whose entry is done                                   *)
(***************************************************************************)
ToStart == {t \in DOMAIN periodic_tasks : t \notin DOMAIN tasks \/ Done(loops[tasks[t]])}

start_all_tasks ==
    LET new == ToStart
        rank(t) == Cardinality({x \in new : x <= t})
        nth(i) == CHOOSE t \in new : rank(t) = i
    IN  /\ loops' = loops \o [i \in 1..Cardinality(new) |->
                                [obj |-> periodic_tasks[nth(i)], pc |-> "new", cancel |-> FALSE]]
        /\ tasks' = [t \in DOMAIN tasks \cup new |->
                       IF t \in new THEN Len(loops) + rank(t) ELSE tasks[t]]
        /\ UNCHANGED <<periodic_tasks, objs, shutdown_event, executor_down, stops, sd>>

(***************************************************************************)
(* _run_periodic_task(task): the steps of loop l between its awaits        *)
(***************************************************************************)
\* an except clause that lets the exception end the loop
AfterRaiseLoopEnds(loop) == [loop EXCEPT !.pc = "done"]

\* except Exception: the loop goes on to wait for the next execution
AfterRaise(loop) == [loop EXCEPT !.pc = "wait"]

\* an error handler that also counts the failed invocation as a run
OnErrorCountsRun(task) == [task EXCEPT !.error_count = @ + 1, !.run_count = @ + 1]

\* task.error_count += 1
OnError(task) == [task EXCEPT !.error_count = @ + 1]

\* task.last_run = datetime.now(); task.run_count += 1
OnSuccess(task) == [task EXCEPT !.last_run = 1, !.run_count = @ + 1]

\* a loop head that does not look at the shutdown event
LoopHeadUnconditional(l) ==
    /\ objs[loops[l].obj].calls < MaxRuns
    /\ loops' = [loops EXCEPT ![l].pc = "call"]
    /\ objs' = [objs EXCEPT ![loops[l].obj].calls = @ + 1]

\* "while not self._shutdown_event.is_set():" followed by the invocation of
\* task.func, up to its await
LoopHead(l) ==
    IF shutdown_event
    THEN /\ loops' = [loops EXCEPT ![l].pc = "done"]
         /\ UNCHANGED objs
    ELSE /\ objs[loops[l].obj].calls < MaxRuns
         /\ loops' = [loops EXCEPT ![l].pc = "call"]
         /\ objs' = [objs EXCEPT ![loops[l].obj].calls = @ + 1]

\* the coroutine starts: the initial delay, if any
LoopStart(l) ==
    /\ loops[l].pc = "new" /\ ~loops[l].cancel
    /\ IF objs[loops[l].obj].initial_delay > 0
       THEN /\ loops' = [loops EXCEPT ![l].pc = "delay"]
            /\ UNCHANGED objs
       ELSE LoopHead(l)

\* asyncio.sleep(task.initial_delay) returns
DelayDone(l) ==
    /\ loops[l].pc = "delay" /\ ~loops[l].cancel
    /\ LoopHead(l)

\* the callable returns: the statistics are updated, the loop waits
CallReturns(l) ==
    /\ loops[l].pc = "call" /\ ~loops[l].cancel
    /\ objs[loops[l].obj].func = "either"
    /\ objs' = [objs EXCEPT ![loops[l].obj] = OnSuccess(@)]
    /\ loops' = [loops EXCEPT ![l].pc = "wait"]

\* the callable raises an Exception
CallRaises(l) ==
    /\ loops[l].pc = "call" /\ ~loops[l].cancel
    /\ objs[loops[l].obj].func \in {"raises", "either"}
    /\ objs' = [objs EXCEPT ![loops[l].obj] = OnError(@)]
    /\ loops' = [loops EXCEPT ![l] = AfterRaise(@)]

\* the wait for the next execution ends (interval elapsed or shutdown set)
WaitDone(l) ==
    /\ loops[l].pc = "wait" /\ ~loops[l].cancel
    /\ LoopHead(l)

\* a requested cancellation is delivered at the await the loop is in:
\* CancelledError is no Exception, so it ends the loop
Cancelled(l) ==
    /\ ~Done(loops[l]) /\ loops[l].cancel
    /\ loops' = [loops EXCEPT ![l].pc = "cancelled"]
    /\ UNCHANGED objs

run_periodic_task(l) ==
    /\ \/ LoopStart(l)
       \/ DelayDone(l)
       \/ CallReturns(l)
       \/ CallRaises(l)
       \/ WaitDone(l)
       \/ Cancelled(l)
    /\ UNCHANGED <<periodic_tasks, tasks, shutdown_event, executor_down, stops, sd>>

(***************************************************************************)
(* stop_task(task_id): cancel, "await task", then del self._tasks[task_id] *)
(***************************************************************************)
stop_task(task_id) ==
    /\ IF task_id \notin DOMAIN tasks
       THEN UNCHANGED <<tasks, loops, stops>>
       ELSE IF Done(loops[tasks[task_id]])
       THEN \* awaiting a finished task does not suspend
            /\ tasks' = Drop(tasks, task_id)
            /\ UNCHANGED <<loops, stops>>
       ELSE /\ loops' = [loops EXCEPT ![tasks[task_id]] = Cancel(@)]
            /\ stops' = stops \cup {[task_id |-> task_id, loop |-> tasks[task_id],
                                      call |-> ncalls + 1]}
            /\ UNCHANGED tasks
    /\ UNCHANGED <<periodic_tasks, objs, shutdown_event, executor_down, sd>>

\* "del d[k]" raises KeyError when d has no key k
DelRaises(d, k) == k \notin DOMAIN d

\* the awaited loop has finished: del self._tasks[task_id], which returns or
\* raises; either way the call is over
stop_task_resumes(s) ==
    /\ s \in stops
    /\ Done(loops[s.loop])
    /\ stops' = stops \ {s}
    /\ IF DelRaises(tasks, s.task_id)
       THEN UNCHANGED tasks
       ELSE tasks' = Drop(tasks, s.task_id)
    /\ UNCHANGED <<periodic_tasks, objs, loops, shutdown_event, executor_down, sd>>

(***************************************************************************)
(* shutdown(timeout): set the event, cancel the tracked loops, wait for    *)
(* them or for the timeout, then self._executor.shutdown(wait=True,        *)
(* timeout=timeout).  ThreadPoolExecutor.shutdown takes no timeout         *)
(* argument: the call raises TypeError and the executor is left running.   *)
(***************************************************************************)
shutdown ==
    /\ sd.pc = "idle"
    /\ shutdown_event' = TRUE
    /\ loops' = [l \in 1..Len(loops) |->
                   IF \E t \in DOMAIN tasks : tasks[t] = l THEN Cancel(loops[l]) ELSE loops[l]]
    /\ sd' = [sd EXCEPT !.pc = "waiting", !.waits = {tasks[t] : t \in DOMAIN tasks}]
    /\ UNCHANGED <<periodic_tasks, objs, tasks, executor_down, stops>>

\* gather has finished, or the timeout has passed with some loop still
\* running (logged as a warning); then the executor call raises
shutdown_resumes ==
    /\ sd.pc = "waiting"
    /\ sd' = [sd EXCEPT !.pc = "raised",
                        !.timed_out = \E l \in sd.waits : ~Done(loops[l])]
    /\ UNCHANGED <<periodic_tasks, objs, tasks, loops, shutdown_event, executor_down, stops>>

\* Task ids are opaque strings: a caller that registers an id for the first
\* time takes the next unused one.
KnownTaskIds == {t \in TaskIds : t <= Cardinality(DOMAIN periodic_tasks) + 1}

TaskNext ==
    \/ /\ ncalls < MaxCalls
       /\ ncalls' = ncalls + 1
       /\ \/ \E t \in KnownTaskIds, f \in Funcs, d \in Delays : register_periodic_task(t, f, 1, d)
          \/ start_all_tasks
          \/ \E t \in KnownTaskIds : stop_task(t)
          \/ shutdown
    \/ /\ ncalls' = ncalls
       /\ \/ \E l \in 1..Len(loops) : run_periodic_task(l)
          \/ \E s \in stops : stop_task_resumes(s)
          \/ shutdown_resumes

(***************************************************************************)
(* ConnectionManager.__init__                                              *)
(***************************************************************************)
NoBroadcast ==
    [pc |-> "idle", priority |-> "normal", it |-> [pos |-> 0, used |-> 0, len |-> 0],
     cur |-> 0, got |-> <<>>, failed |-> <<>>, reg0 |-> {}, size |-> 0]

NoConnect == [pc |-> "idle", id |-> 0, stale |-> <<>>, closing |-> 0, lapsed |-> FALSE,
              due |-> {}, ran |-> FALSE, disconnects |-> 0, code |-> 0]

\* an endpoint handler that has not started its loops; last_metrics_time is 0
\* in the code, where time.time() counts from 1970: at least MetricsEvery
\* before the start of this clock
NoEndpoint ==
    [recv |-> "none", main |-> "none", inbox |-> <<>>, pong |-> 0, got |-> <<>>,
     slept_at |-> 0, last_metrics_time |-> 0 - MetricsEvery,
     last_sent |-> 0 - MetricsEvery, hung_up |-> FALSE, left |-> FALSE]

ConnConstructed ==
    /\ active_connections = <<>>
    /\ entries = <<>>
    /\ last_cleanup = 0
    /\ wnow = 0
    /\ conn = [c \in Clients |-> NoConnect]
    /\ broken = {}
    /\ bc = [b \in Broadcasts |-> NoBroadcast]
    /\ wcalls = 0
    /\ ep = [c \in Clients |-> NoEndpoint]

\* the conn_info stored at registration (connected_at is never read by the
\* manager and is left out)
ConnInfo(ws, t) == [websocket |-> ws, last_ping |-> t, message_count |-> 0, bytes_sent |-> 0]

\* del self.active_connections[client_id] for every id of ids that is present
Without(conns, ids) == [c \in DOMAIN conns \ ids |-> conns[c]]

(***************************************************************************)
(* Iteration over self.active_connections.items() (CPython 3.8 and later): *)
(* the iterator remembers the dict's size (used), the entry it has reached *)
(* (pos) and the number of items it still expects (len).  A deleted entry  *)
(* stays in the entry array as a dummy; a new key goes to the array's end  *)
(* (the array is not rebuilt before its sixth insertion).                  *)
(***************************************************************************)
NewIter == [pos |-> 0, used |-> Cardinality(DOMAIN active_connections),
            len |-> Cardinality(DOMAIN active_connections)]

\* next(iterator): RuntimeError when the dict has changed size, or when it
\* holds an item more than expected; StopIteration at the end of the array
IterNext(it) ==
    LET left == {i \in (it.pos + 1)..Len(entries) : entries[i] \in DOMAIN active_connections}
        first == CHOOSE i \in left : \A j \in left : i <= j
    IN  IF it.used # Cardinality(DOMAIN active_connections)
        THEN [kind |-> "error", key |-> 0, it |-> it]
        ELSE IF left = {}
        THEN [kind |-> "stop", key |-> 0, it |-> it]
        ELSE IF it.len = 0
        THEN [kind |-> "error", key |-> 0, it |-> it]
        ELSE [kind |-> "item", key |-> entries[first],
              it |-> [it EXCEPT !.pos = first, !.len = @ - 1]]

\* "if priority == 'low' and time.time() - conn_info['last_ping'] > 30"
Slow(c) == wnow - active_connections[c].last_ping > SlowAfter

\* a loop head that passes over no connection
NextSendAll(it, priority) == IterNext(it)

\* the loop head of broadcast_json, up to the next send or the loop's end:
\* connections skipped for a low priority message are passed over
RECURSIVE NextSend(_, _)
NextSend(it, priority) ==
    LET r == IterNext(it)
    IN  IF r.kind = "item" /\ priority = "low" /\ Slow(r.key)
        THEN NextSend(r.it, priority)
        ELSE r

(***************************************************************************)
(* broadcast_json(data, priority)                                          *)
(***************************************************************************)
\* a cleanup that removes the first failed client only
EvictFirstOnly(conns, failed) ==
    IF failed = <<>> THEN conns ELSE Without(conns, {failed[1]})

\* "for client_id in disconnected_clients: ... del"
Evict(conns, failed) == Without(conns, Range(failed))

\* broadcast b goes on from the loop head: it suspends in the next send, or
\* leaves the loop and cleans up, or the iteration raises RuntimeError,
\* which nothing in broadcast_json catches
Continue(b, rec, conns) ==
    LET r == NextSend(rec.it, rec.priority)
    IN  IF r.kind = "error"
        THEN /\ bc' = [bc EXCEPT ![b] = [rec EXCEPT !.pc = "raised", !.cur = 0]]
             /\ active_connections' = conns
        ELSE IF r.kind = "stop"
        THEN /\ bc' = [bc EXCEPT ![b] = [rec EXCEPT !.pc = "done", !.cur = 0]]
             /\ active_connections' = Evict(conns, rec.failed)
        ELSE /\ bc' = [bc EXCEPT ![b] = [rec EXCEPT !.pc = "sending", !.cur = r.key,
                                                     !.it = r.it]]
             /\ active_connections' = conns

\* len(json.dumps(data)) of the payloads that are broadcast
PayloadSizes == {2, 5}

\* broadcast_json(data, priority), data being size characters long when
\* serialized
broadcast_data(b, priority, size) ==
    /\ bc[b].pc = "idle"
    /\ Continue(b, [NoBroadcast EXCEPT !.priority = priority, !.it = NewIter,
                                       !.reg0 = DOMAIN active_connections,
                                       !.size = size],
                active_connections)
    /\ UNCHANGED <<entries, last_cleanup, wnow, conn, broken>>

\* a broadcast of the shortest payload
broadcast_json(b, priority) == broadcast_data(b, priority, 2)

\* stats that count the message and not its bytes
SentCountOnly(conn_info, size) == [conn_info EXCEPT !.message_count = @ + 1]

\* "conn_info['message_count'] += 1; conn_info['bytes_sent'] += len(json.dumps(data))"
Sent(conn_info, size) ==
    [conn_info EXCEPT !.message_count = @ + 1, !.bytes_sent = @ + size]

\* websocket.send_json returns: the connection's stats are updated
SendReturns(b) ==
    /\ bc[b].pc = "sending"
    /\ bc[b].cur \notin broken
    /\ Continue(b, [bc[b] EXCEPT !.got = Append(@, bc[b].cur)],
                IF bc[b].cur \in DOMAIN active_connections
                THEN [active_connections EXCEPT ![bc[b].cur] = Sent(@, bc[b].size)]
                ELSE active_connections)
    /\ UNCHANGED <<entries, last_cleanup, wnow, conn, broken>>

\* websocket.send_json raises: the client is noted for removal
SendRaises(b) ==
    /\ bc[b].pc = "sending"
    /\ bc[b].cur \in broken
    /\ Continue(b, [bc[b] EXCEPT !.failed = Append(@, bc[b].cur)], active_connections)
    /\ UNCHANGED <<entries, last_cleanup, wnow, conn, broken>>

(***************************************************************************)
(* connect(websocket, client_id), with _cleanup_if_needed                  *)
(***************************************************************************)
\* a capacity check that lets one connection too many in
AtCapacityStrict(n) == n > max_connections

\* "if len(self.active_connections) >= self.max_connections"
AtCapacity(n) == n >= max_connections

\* connect(websocket, client_id), up to its first await: the capacity check;
\* a rejected websocket is closed with code 1013 and connect returns False
connect_with(c, id) ==
    /\ conn[c].pc = "idle"
    /\ IF AtCapacity(Cardinality(DOMAIN active_connections))
       THEN /\ conn' = [conn EXCEPT ![c].pc = "rejected", ![c].id = id,
                                    ![c].code = CloseOverloaded]
            /\ broken' = broken \cup {c}
       ELSE /\ conn' = [conn EXCEPT ![c].pc = "accepting", ![c].id = id]
            /\ UNCHANGED broken
    /\ UNCHANGED <<active_connections, entries, last_cleanup, wnow, bc>>

\* connect as websocket_endpoint calls it, with a uuid made for the call
connect(c) == connect_with(c, 0)

\* connect with a client_id that is registered already
connect_as(c, id) ==
    /\ id \in DOMAIN active_connections
    /\ connect_with(c, id)

\* the registered connections whose last ping is more than StaleAfter old
StaleNow(conns) == {c \in DOMAIN conns : wnow - conns[c].last_ping > StaleAfter}

\* a scan that takes the low priority threshold for the staleness threshold
RECURSIVE StaleClientsSlow(_, _)
StaleClientsSlow(conns, i) ==
    IF i > Len(entries) THEN <<>>
    ELSE IF entries[i] \in DOMAIN conns /\ wnow - conns[entries[i]].last_ping > SlowAfter
    THEN <<entries[i]>> \o StaleClientsSlow(conns, i + 1)
    ELSE StaleClientsSlow(conns, i + 1)

\* a scan that stops at the first stale client it finds
RECURSIVE StaleClientsFirst(_, _)
StaleClientsFirst(conns, i) ==
    IF i > Len(entries) THEN <<>>
    ELSE IF entries[i] \in DOMAIN conns /\ wnow - conns[entries[i]].last_ping > StaleAfter
    THEN <<entries[i]>>
    ELSE StaleClientsFirst(conns, i + 1)

\* the clients _cleanup_if_needed finds stale, in the dict's order
RECURSIVE StaleClients(_, _)
StaleClients(conns, i) ==
    IF i > Len(entries) THEN <<>>
    ELSE IF entries[i] \in DOMAIN conns /\ wnow - conns[entries[i]].last_ping > StaleAfter
    THEN <<entries[i]>> \o StaleClients(conns, i + 1)
    ELSE StaleClients(conns, i + 1)

\* "conn_info = self.active_connections[client_id]" raises KeyError for a
\* client that is gone; the bare except passes on to the next one
RECURSIVE SkipGone(_, _)
SkipGone(stale, conns) ==
    IF stale = <<>> \/ stale[1] \in DOMAIN conns THEN stale
    ELSE SkipGone(Tail(stale), conns)

\* "if not client_id: client_id = str(uuid.uuid4())": the fresh uuid made for
\* the websocket of client c is c
ClientId(c) == IF conn[c].id = 0 THEN c ELSE conn[c].id

\* the dict's entry array after "d[k] = v": a key that is present keeps its
\* entry, a new key gets an entry at the end (an entry it had before it was
\* deleted stays behind as a dummy)
Assign(conns, k) ==
    IF k \in DOMAIN conns THEN entries
    ELSE Append([i \in 1..Len(entries) |-> IF entries[i] = k THEN 0 ELSE entries[i]], k)

\* "conn_info = self.active_connections[client_id]": the websocket that the
\* cleanup closes next
Closing(stale, conns) == IF stale = <<>> THEN 0 ELSE conns[stale[1]].websocket

\* "await websocket.accept()" returns: the connection is registered, then
\* _cleanup_if_needed runs up to its first close, if it has any to do
connect_accepted(c) ==
    /\ conn[c].pc = "accepting"
    /\ LET conns == Put(active_connections, ClientId(c), ConnInfo(c, wnow))
           stale == StaleClients(conns, 1)
       IN  /\ active_connections' = conns
           /\ entries' = Assign(active_connections, ClientId(c))
           /\ IF wnow - last_cleanup < cleanup_interval
              THEN /\ conn' = [conn EXCEPT ![c].pc = "open", ![c].due = StaleNow(conns)]
                   /\ UNCHANGED last_cleanup
              ELSE /\ last_cleanup' = wnow
                   /\ conn' = [conn EXCEPT ![c].pc = IF stale = <<>> THEN "open" ELSE "closing",
                                           ![c].stale = stale,
                                           ![c].closing = Closing(stale, conns),
                                           ![c].due = StaleNow(conns),
                                           ![c].ran = TRUE]
    /\ UNCHANGED <<wnow, broken, bc>>

\* a cleanup that gives up a client whose close raised
AfterCloseUnlessRaised(conns, client_id, raised) ==
    IF raised THEN conns ELSE Without(conns, {client_id})

\* "try: ... await websocket.close(...) except: pass finally: if client_id in
\* self.active_connections: del ...": the registry after the close of a
\* stale client has returned or raised
AfterClose(conns, client_id, raised) == Without(conns, {client_id})

\* the close of a stale connection returns, or raises on a transport that is
\* closed already, which is swallowed: its entry is deleted, the cleanup
\* goes on to the next stale client
cleanup_closed(c) ==
    /\ conn[c].pc = "closing"
    /\ LET victim == conn[c].stale[1]
           ws == conn[c].closing
           conns == AfterClose(active_connections, victim, ws \in broken)
           rest == SkipGone(Tail(conn[c].stale), conns)
       IN  /\ active_connections' = conns
           /\ broken' = broken \cup {ws}
           /\ conn' = [conn EXCEPT ![c].pc = IF rest = <<>> THEN "open" ELSE "closing",
                                   ![c].stale = rest,
                                   ![c].closing = Closing(rest, conns),
                                   ![ws].code = IF ws \in broken THEN @ ELSE CloseTimeout]
    /\ UNCHANGED <<entries, last_cleanup, wnow, bc>>

(***************************************************************************)
(* disconnect(websocket), update_ping(client_id)                           *)
(***************************************************************************)
\* a search that takes the first entry it meets, whatever websocket it holds
FindWebsocketFirst(conns, ws) ==
    LET live == {i \in 1..Len(entries) : entries[i] \in DOMAIN conns}
    IN  IF live = {} THEN {}
        ELSE {entries[CHOOSE i \in live : \A j \in live : i <= j]}

\* "for cid, conn_info in ...: if conn_info['websocket'] == websocket": the
\* id of the entry that holds the websocket, none if no entry holds it (a
\* websocket is registered by one connect call, so at most one entry does)
FindWebsocket(conns, ws) == {cid \in DOMAIN conns : conns[cid].websocket = ws}

\* disconnect(websocket) is called for a websocket whose connect has returned
\* (registered or rejected), a first time or again; it removes the entry
\* that holds this websocket, if there is one
disconnect(c) ==
    /\ conn[c].pc \in {"open", "closed", "rejected"}
    /\ conn[c].disconnects < MaxDisconnects
    /\ active_connections' = Without(active_connections, FindWebsocket(active_connections, c))
    /\ conn' = [conn EXCEPT ![c].pc = IF @ = "open" THEN "closed" ELSE @,
                            ![c].disconnects = @ + 1]
    /\ UNCHANGED <<entries, last_cleanup, wnow, broken, bc>>

update_ping(c) ==
    /\ conn[c].pc = "open"
    /\ c \in DOMAIN active_connections
    /\ active_connections[c].last_ping # wnow
    /\ active_connections' = [active_connections EXCEPT ![c].last_ping = wnow]
    /\ UNCHANGED <<entries, last_cleanup, wnow, conn, broken, bc>>

(***************************************************************************)
(* The environment: a client closes its side, time passes                  *)
(***************************************************************************)
ClientCloses(c) ==
    /\ conn[c].pc = "open"
    /\ c \notin broken
    /\ broken' = broken \cup {c}
    /\ UNCHANGED <<active_connections, entries, last_cleanup, wnow, conn, bc>>

ConnTick ==
    /\ wnow < MaxTicks * TickSeconds
    /\ wnow' = wnow + TickSeconds
    /\ conn' = [c \in Clients |->
                 [conn[c] EXCEPT !.lapsed = @ \/ (/\ c \in DOMAIN active_connections
                                                 /\ wnow' - active_connections[c].last_ping > StaleAfter)]]
    /\ UNCHANGED <<active_connections, entries, last_cleanup, broken, bc>>

\* client ids are fresh uuids and broadcasts are anonymous: the next client,
\* the next broadcast, is the first one not yet under way
NextClient == {c \in Clients : conn[c].pc = "idle" /\ \A d \in 1..(c - 1) : conn[d].pc # "idle"}
NextBroadcast == {b \in Broadcasts : bc[b].pc = "idle" /\ \A d \in 1..(b - 1) : bc[d].pc # "idle"}

ConnNext ==
    \/ /\ wcalls < MaxConnCalls
       /\ wcalls' = wcalls + 1
       /\ \/ \E c \in NextClient : connect(c)
          \/ \E c \in Clients : disconnect(c)
          \/ \E c \in Clients : update_ping(c)
          \/ \E b \in NextBroadcast, p \in Priorities : broadcast_json(b, p)
          \/ \E c \in Clients : ClientCloses(c)
          \/ ConnTick
    \/ /\ wcalls' = wcalls
       /\ \/ \E c \in Clients : connect_accepted(c)
          \/ \E c \in Clients : cleanup_closed(c)
          \/ \E b \in Broadcasts : SendReturns(b)
          \/ \E b \in Broadcasts : SendRaises(b)

\* connects, disconnects, heartbeats and cleanups only, with the clock
\* running freely
CleanupNext ==
    \/ /\ wcalls < MaxConnCalls
       /\ wcalls' = wcalls + 1
       /\ \/ \E c \in NextClient : connect(c)
          \/ \E c \in Clients : disconnect(c)
          \/ \E c \in Clients : update_ping(c)
    \/ /\ wcalls' = wcalls
       /\ \/ ConnTick
          \/ \E c \in Clients : connect_accepted(c)
          \/ \E c \in Clients : cleanup_closed(c)

\* connects, disconnects, clients that close their side, and cleanups, with
\* the clock running freely
ClosedTransportNext ==
    \/ /\ wcalls < MaxConnCalls
       /\ wcalls' = wcalls + 1
       /\ \/ \E c \in NextClient : connect(c)
          \/ \E c \in Clients : disconnect(c)
          \/ \E c \in Clients : ClientCloses(c)
    \/ /\ wcalls' = wcalls
       /\ \/ ConnTick
          \/ \E c \in Clients : connect_accepted(c)
          \/ \E c \in Clients : cleanup_closed(c)

\* connects and disconnects, with callers of connect that may propose a
\* client_id that is in use
ProposedIdNext ==
    \/ /\ wcalls < MaxConnCalls
       /\ wcalls' = wcalls + 1
       /\ \/ \E c \in NextClient : connect(c)
          \/ \E c \in NextClient, id \in Clients : connect_as(c, id)
          \/ \E c \in Clients : disconnect(c)
    \/ /\ wcalls' = wcalls
       /\ \/ ConnTick
          \/ \E c \in Clients : connect_accepted(c)
          \/ \E c \in Clients : cleanup_closed(c)

\* one broadcast on its own: no other flow runs while it is under way
BroadcastNext ==
    /\ \/ \E p \in Priorities, size \in PayloadSizes : broadcast_data(1, p, size)
       \/ SendReturns(1)
       \/ SendRaises(1)
    /\ UNCHANGED wcalls

(***************************************************************************)
(* websocket_endpoint(websocket): after connect has returned a client id,  *)
(* the handler starts handle_client_message as a task of its own and runs  *)
(* the metrics loop itself                                                 *)
(***************************************************************************)
Ping(t) == [type |-> "ping", timestamp |-> t]
RequestMetrics == [type |-> "request_metrics", timestamp |-> 0]
\* a text frame that json.loads rejects, or that is no JSON object
Malformed == [type |-> "malformed", timestamp |-> 0]
Messages == {Ping(t) : t \in Stamps} \cup {RequestMetrics, Malformed}

Pong(t) == [type |-> "pong", timestamp |-> t]
SystemMetrics == [type |-> "system_metrics", timestamp |-> 0]

\* "message_task = asyncio.create_task(handle_client_message())", then the
\* metrics loop goes to its first sleep and the receive task to its first
\* receive_text
StartLoops(c) ==
    /\ conn[c].pc = "open"
    /\ ep[c].main = "none"
    /\ ep' = [ep EXCEPT ![c].recv = "receiving", ![c].main = "sleeping",
                        ![c].slept_at = wnow]
    /\ UNCHANGED <<active_connections, entries, last_cleanup, wnow, conn, broken, bc>>

\* the client sends a text frame on its accepted, open websocket
ClientSends(c, m) ==
    /\ conn[c].pc \in {"closing", "open"}
    /\ c \notin broken
    /\ Len(ep[c].inbox) < MaxInbox
    /\ ep' = [ep EXCEPT ![c].inbox = Append(@, m)]
    /\ UNCHANGED <<active_connections, entries, last_cleanup, wnow, conn, broken, bc>>

\* the client closes its websocket
ClientHangsUp(c) ==
    /\ ClientCloses(c)
    /\ ep' = [ep EXCEPT ![c].hung_up = TRUE]

\* "if client_id in self.active_connections: ...['last_ping'] = time.time()"
UpdatePing(conns, c) ==
    IF c \in DOMAIN conns THEN [conns EXCEPT ![c].last_ping = wnow] ELSE conns

\* "if current_time - last_metrics_time < 5: return"
RateLimited(e) == wnow - e.last_metrics_time < MetricsEvery

\* what send_system_metrics lets out to its caller when a send in it has
\* raised exc: its body is inside "try: ... except Exception: pass"
MetricsLetsOut(exc) == "nothing"

\* "await websocket.receive_text()" returns the client's next frame, which
\* the receive loop handles up to its next suspension
ReceiveText(c) ==
    /\ ep[c].recv = "receiving"
    /\ ep[c].inbox # <<>>
    /\ LET m == Head(ep[c].inbox)
           e == [ep[c] EXCEPT !.inbox = Tail(@)]
       IN  IF m.type = "malformed"
           THEN \* json.loads or data.get raises; "except Exception: pass"
                /\ ep' = [ep EXCEPT ![c] = [e EXCEPT !.recv = "ended"]]
                /\ UNCHANGED active_connections
           ELSE IF m.type = "ping"
           THEN /\ active_connections' = UpdatePing(active_connections, c)
                /\ ep' = [ep EXCEPT ![c] = [e EXCEPT !.recv = "ponging",
                                                     !.pong = m.timestamp]]
           ELSE \* request_metrics: "await send_system_metrics()"
                /\ ep' = [ep EXCEPT ![c] =
                            IF RateLimited(e) THEN e
                            ELSE [e EXCEPT !.recv = "metrics",
                                           !.last_metrics_time = wnow]]
                /\ UNCHANGED active_connections
    /\ UNCHANGED <<entries, last_cleanup, wnow, conn, broken, bc>>

\* "await websocket.receive_text()" raises on a websocket that is closed:
\* "except WebSocketDisconnect: pass", the receive task ends
ReceiveDisconnect(c) ==
    /\ ep[c].recv = "receiving"
    /\ ep[c].inbox = <<>>
    /\ c \in broken
    /\ ep' = [ep EXCEPT ![c].recv = "ended"]
    /\ UNCHANGED <<active_connections, entries, last_cleanup, wnow, conn, broken, bc>>

\* the send of the pong returns: the receive loop goes back to receive_text
PongSent(c) ==
    /\ ep[c].recv = "ponging"
    /\ c \notin broken
    /\ ep' = [ep EXCEPT ![c].recv = "receiving", ![c].got = Append(@, Pong(ep[c].pong))]
    /\ UNCHANGED <<active_connections, entries, last_cleanup, wnow, conn, broken, bc>>

\* the send of the pong raises: "except Exception: pass", the receive task ends
PongRaises(c) ==
    /\ ep[c].recv = "ponging"
    /\ c \in broken
    /\ ep' = [ep EXCEPT ![c].recv = "ended"]
    /\ UNCHANGED <<active_connections, entries, last_cleanup, wnow, conn, broken, bc>>

\* "await asyncio.sleep(5)" returns, "await send_system_metrics()" is called
MainWakes(c) ==
    /\ ep[c].main = "sleeping"
    /\ wnow - ep[c].slept_at >= MetricsEvery
    /\ ep' = [ep EXCEPT ![c] =
                IF RateLimited(ep[c]) THEN [ep[c] EXCEPT !.slept_at = wnow]
                ELSE [ep[c] EXCEPT !.main = "metrics", !.last_metrics_time = wnow]]
    /\ UNCHANGED <<active_connections, entries, last_cleanup, wnow, conn, broken, bc>>

\* where flow f ("recv" or "main") of the handler goes on after its
\* send_system_metrics call has returned
MetricsReturned(e, f) ==
    IF f = "main" THEN [e EXCEPT !.main = "sleeping", !.slept_at = wnow]
    ELSE [e EXCEPT !.recv = "receiving"]

\* the sends of send_system_metrics return (metrics, chart data and
\* integration status, taken as one message)
MetricsSent(c, f) ==
    /\ ep[c][f] = "metrics"
    /\ c \notin broken
    /\ ep' = [ep EXCEPT ![c] = MetricsReturned([ep[c] EXCEPT !.got = Append(@, SystemMetrics),
                                                              !.last_sent = wnow], f)]
    /\ UNCHANGED <<active_connections, entries, last_cleanup, wnow, conn, broken, bc>>

\* a send of send_system_metrics raises.  Were the exception let out to the
\* metrics loop, "except WebSocketDisconnect / except Exception" would call
\* manager.disconnect(websocket) and "finally" would cancel the receive task
MetricsRaises(c, f) ==
    /\ ep[c][f] = "metrics"
    /\ c \in broken
    /\ IF MetricsLetsOut("WebSocketDisconnect") = "nothing"
       THEN /\ ep' = [ep EXCEPT ![c] = MetricsReturned(ep[c], f)]
            /\ UNCHANGED active_connections
       ELSE /\ ep' = [ep EXCEPT ![c].recv = "ended", ![c].main = "ended", ![c].left = TRUE]
            /\ active_connections' = Without(active_connections,
                                             FindWebsocket(active_connections, c))
    /\ UNCHANGED <<entries, last_cleanup, wnow, conn, broken, bc>>

Flows == {"recv", "main"}

\* the steps the server takes by itself
EndpointServer ==
    \/ \E c \in Clients : (connect_accepted(c) \/ cleanup_closed(c)) /\ UNCHANGED ep
    \/ \E c \in Clients : StartLoops(c)
    \/ \E c \in Clients : ReceiveText(c)
    \/ \E c \in Clients : ReceiveDisconnect(c)
    \/ \E c \in Clients : PongSent(c)
    \/ \E c \in Clients : PongRaises(c)
    \/ \E c \in Clients : MainWakes(c)
    \/ \E c \in Clients, f \in Flows : MetricsSent(c, f)
    \/ \E c \in Clients, f \in Flows : MetricsRaises(c, f)

\* clients connect, send frames and close; the clock runs
EndpointNext ==
    \/ /\ wcalls < MaxEndpointCalls
       /\ wcalls' = wcalls + 1
       /\ \/ \E c \in NextClient : connect(c) /\ UNCHANGED ep
          \/ \E c \in Clients, m \in Messages : ClientSends(c, m)
          \/ \E c \in Clients : ClientHangsUp(c)
          \/ ConnTick /\ UNCHANGED ep
    \/ /\ wcalls' = wcalls
       /\ EndpointServer

(***************************************************************************)
(* Prediction tracking (backend_simple.py): prediction_tracking and its    *)
(* lock, written by log_prediction_with_metrics and                        *)
(* cleanup_old_predictions, which any thread may call                      *)
(***************************************************************************)
maxlen == 2          \* deque(maxlen=1000) in the code
MaxLogCalls == 4
max_age_hours == 24

\* the readings of the clock, in hours
ClockHours == {0, max_age_hours, 2 * max_age_hours}

ModelIds == {1, 2}
Threads == {1, 2}

NotCalling == [pc |-> "idle", op |-> "none", model_id |-> 0, input |-> 0,
               current_time |-> 0, loaded |-> 0, waited |-> FALSE]

PredConstructed ==
    /\ prediction_history = <<>>
    /\ active_model_metrics = <<>>
    /\ memory_stats = [total_predictions |-> 0, last_cleanup |-> 0]
    /\ prediction_tracking_lock = 0
    /\ thread = [t \in Threads |-> NotCalling]
    /\ pnow = 0
    /\ pcalls = 0
    /\ requested = [m \in ModelIds |-> {}]
    /\ log_order = [m \in ModelIds |-> <<>>]
    /\ cleaned = [m \in ModelIds |-> 0]

\* a lock that excludes nobody
AlwaysAcquire(owner, t) == TRUE

\* threading.RLock: free, or already held by the thread that asks
CanAcquire(owner, t) == owner \in {0, t}

\* an append that leaves a full deque as it is
DequeKeepsOldest(d, x) == IF Len(d) < maxlen THEN Append(d, x) ELSE d

\* deque.append on a deque(maxlen=maxlen): a full deque drops its left end
DequeAppend(d, x) == IF Len(d) < maxlen THEN Append(d, x) ELSE Append(Tail(d), x)

\* deque(maxlen=maxlen) filled by appending the records of a history that
\* are not older than the cutoff, in the history's order
Recent(history, cutoff_time) ==
    SelectSeq(history, LAMBDA prediction : prediction.timestamp >= cutoff_time)

\* a thread calls log_prediction_with_metrics(model_id, input_data, ...);
\* every call brings an input of its own
log_prediction_with_metrics(t, m) ==
    /\ thread[t].pc = "idle"
    /\ thread' = [thread EXCEPT ![t] = [@ EXCEPT !.pc = "acquire", !.op = "log",
                                             !.model_id = m, !.input = pcalls + 1,
                                             !.waited = @ \/ prediction_tracking_lock # 0]]
    /\ requested' = [requested EXCEPT ![m] = @ \cup {pcalls + 1}]
    /\ pcalls' = pcalls + 1
    /\ UNCHANGED <<prediction_history, active_model_metrics, memory_stats,
                   prediction_tracking_lock, pnow, log_order, cleaned>>

\* a thread calls cleanup_old_predictions()
cleanup_old_predictions(t) ==
    /\ thread[t].pc = "idle"
    /\ thread' = [thread EXCEPT ![t] = [@ EXCEPT !.pc = "acquire", !.op = "cleanup",
                                             !.waited = @ \/ prediction_tracking_lock # 0]]
    /\ pcalls' = pcalls + 1
    /\ UNCHANGED <<prediction_history, active_model_metrics, memory_stats,
                   prediction_tracking_lock, pnow, requested, log_order, cleaned>>

\* with prediction_tracking_lock: the thread waits until it can have the
\* lock, and reads the clock
lock_acquired(t) ==
    /\ thread[t].pc = "acquire"
    /\ CanAcquire(prediction_tracking_lock, t)
    /\ prediction_tracking_lock' = t
    /\ thread' = [thread EXCEPT ![t].current_time = pnow,
                                ![t].pc = IF thread[t].op = "log" THEN "record" ELSE "clean"]
    /\ UNCHANGED <<prediction_history, active_model_metrics, memory_stats,
                   pnow, pcalls, requested, log_order, cleaned>>

\* the history of the model is created if it has none, the record is
\* appended to it and the model's metrics are refreshed
log_recorded(t) ==
    /\ thread[t].pc = "record"
    /\ LET m == thread[t].model_id
           prediction_record == [timestamp |-> thread[t].current_time,
                                 input |-> thread[t].input]
           history == IF m \in DOMAIN prediction_history
                        THEN prediction_history[m] ELSE <<>>
           appended == DequeAppend(history, prediction_record)
       IN  /\ prediction_history' = Put(prediction_history, m, appended)
           /\ active_model_metrics' = Put(active_model_metrics, m, Len(appended))
           /\ log_order' = [log_order EXCEPT ![m] = Append(@, prediction_record)]
    /\ thread' = [thread EXCEPT ![t].pc = "load"]
    /\ UNCHANGED <<memory_stats, prediction_tracking_lock, pnow, pcalls, requested, cleaned>>

\* memory_stats["total_predictions"] += 1, first half: the value is read
stats_loaded(t) ==
    /\ thread[t].pc = "load"
    /\ thread' = [thread EXCEPT ![t].loaded = memory_stats.total_predictions,
                                ![t].pc = "store"]
    /\ UNCHANGED <<prediction_history, active_model_metrics, memory_stats,
                   prediction_tracking_lock, pnow, pcalls, requested, log_order, cleaned>>

\* second half: the value plus one is stored; the call returns and the
\* lock is released
stats_stored(t) ==
    /\ thread[t].pc = "store"
    /\ memory_stats' = [memory_stats EXCEPT !.total_predictions = thread[t].loaded + 1]
    /\ prediction_tracking_lock' = 0
    /\ thread' = [thread EXCEPT ![t] = [NotCalling EXCEPT !.waited = thread[t].waited]]
    /\ UNCHANGED <<prediction_history, active_model_metrics, pnow, pcalls,
                   requested, log_order, cleaned>>

\* the body of cleanup_old_predictions: every history is rebuilt from its
\* records that are not older than max_age_hours; the lock is released
histories_cleaned(t) ==
    /\ thread[t].pc = "clean"
    /\ LET cutoff_time == thread[t].current_time - max_age_hours
       IN  /\ prediction_history' = [m \in DOMAIN prediction_history |->
                                       Recent(prediction_history[m], cutoff_time)]
           /\ cleaned' = [m \in ModelIds |->
                            IF m \in DOMAIN prediction_history
                              THEN cleaned[m] + Len(prediction_history[m])
                                              - Len(Recent(prediction_history[m], cutoff_time))
                              ELSE cleaned[m]]
    /\ memory_stats' = [memory_stats EXCEPT !.last_cleanup = thread[t].current_time]
    /\ prediction_tracking_lock' = 0
    /\ thread' = [thread EXCEPT ![t] = [NotCalling EXCEPT !.waited = thread[t].waited]]
    /\ UNCHANGED <<active_model_metrics, pnow, pcalls, requested, log_order>>

\* the clock moves on by max_age_hours
PredTick ==
    /\ pnow + max_age_hours \in ClockHours
    /\ pnow' = pnow + max_age_hours
    /\ UNCHANGED <<prediction_history, active_model_metrics, memory_stats,
                   prediction_tracking_lock, thread, pcalls, requested, log_order, cleaned>>

PredNext ==
    \/ /\ pcalls < MaxLogCalls
       /\ \/ \E t \in Threads, m \in ModelIds : log_prediction_with_metrics(t, m)
          \/ \E t \in Threads : cleanup_old_predictions(t)
    \/ \E t \in Threads : lock_acquired(t)
    \/ \E t \in Threads : log_recorded(t)
    \/ \E t \in Threads : stats_loaded(t)
    \/ \E t \in Threads : stats_stored(t)
    \/ \E t \in Threads : histories_cleaned(t)
    \/ PredTick

(***************************************************************************)
(* Health monitoring: the module-level previous_system_health and          *)
(* check_and_broadcast_health_changes, called from the metrics loop of     *)
(* every connection (backend_simple.py).  The coroutine compares the       *)
(* computed level with previous_system_health, then awaits the broadcast   *)
(* of the health_change event, the creation of the alert and the activity  *)
(* log, and assigns previous_system_health only after those awaits.        *)
(***************************************************************************)
MaxHealthCalls == 4

Callers == {1, 2}

Percents == {50, 85, 95}

determine_system_health(cpu, memory, disk) ==
    IF cpu > 90 \/ memory > 90 \/ disk > 95 THEN "critical"
    ELSE IF cpu > 80 \/ memory > 80 \/ disk > 90 THEN "warning"
    ELSE "healthy"

NoCheck == [pc |-> "idle", current_health |-> "healthy"]

HealthConstructed ==
    /\ previous_system_health = "healthy"
    /\ cpu_percent = 50
    /\ hc = [k \in Callers |-> NoCheck]
    /\ health_events = <<>>
    /\ alerts_store = <<>>
    /\ computed = <<>>
    /\ hcalls = 0

\* psutil reports another load
LoadChanges(p) ==
    /\ p # cpu_percent
    /\ cpu_percent' = p
    /\ UNCHANGED <<previous_system_health, hc, health_events, alerts_store, computed>>

\* send_system_metrics of one connection computes the level and enters
\* check_and_broadcast_health_changes: the comparison, and for a changed level the
\* event handed to broadcast_system_event, where the coroutine is suspended
check_and_broadcast_health_changes(k) ==
    LET current_health == determine_system_health(cpu_percent, 50, 50)
    IN  /\ hc[k].pc = "idle"
        /\ computed' = Append(computed, current_health)
        /\ IF current_health # previous_system_health
           THEN /\ health_events' = Append(health_events,
                      [previous_health |-> previous_system_health,
                       current_health |-> current_health])
                /\ hc' = [hc EXCEPT ![k] = [pc |-> "event", current_health |-> current_health]]
           ELSE UNCHANGED <<health_events, hc>>
        /\ UNCHANGED <<previous_system_health, cpu_percent, alerts_store>>

\* the broadcast of the event returned: create_system_alert for critical and warning
\* stores the alert and is suspended in its own broadcast
event_broadcast(k) ==
    /\ hc[k].pc = "event"
    /\ IF hc[k].current_health \in {"critical", "warning"}
       THEN /\ alerts_store' = Append(alerts_store, hc[k].current_health)
            /\ hc' = [hc EXCEPT ![k].pc = "alert"]
       ELSE /\ hc' = [hc EXCEPT ![k].pc = "log"]
            /\ UNCHANGED alerts_store
    /\ UNCHANGED <<previous_system_health, cpu_percent, health_events, computed, hcalls>>

\* create_system_alert returned: suspended in log_activity_with_broadcast
alert_created(k) ==
    /\ hc[k].pc = "alert"
    /\ hc' = [hc EXCEPT ![k].pc = "log"]
    /\ UNCHANGED <<previous_system_health, cpu_percent, health_events, alerts_store,
                   computed, hcalls>>

\* the activity is logged: previous_system_health is assigned, the coroutine returns
health_recorded(k) ==
    /\ hc[k].pc = "log"
    /\ previous_system_health' = hc[k].current_health
    /\ hc' = [hc EXCEPT ![k] = NoCheck]
    /\ UNCHANGED <<cpu_percent, health_events, alerts_store, computed, hcalls>>

HealthNext ==
    \/ /\ hcalls < MaxHealthCalls
       /\ hcalls' = hcalls + 1
       /\ \/ \E p \in Percents : LoadChanges(p)
          \/ \E k \in Callers : check_and_broadcast_health_changes(k)
    \/ \E k \in Callers : event_broadcast(k) \/ alert_created(k) \/ health_recorded(k)

(***************************************************************************)
(* CacheManager called from several threads (cache_manager.py).  Every     *)
(* public method runs in "with self._lock"; a thread inside the block can  *)
(* be preempted between any two statements, so each method is modelled as  *)
(* the entry into the block followed by two steps of its body.  The clock  *)
(* advances at any time.                                                   *)
(***************************************************************************)
MaxThreadCalls == 3

CacheThreads == {1, 2}

ThreadKeys == {1, 2}

ThreadTtls == {<<>>, <<1>>}

\* the values of time.time(), and the capacities the cache is built with
ThreadClock == {0, 1, 2}

ThreadCapacities == {1, 2}

NoOp == [pc |-> "idle", op |-> "none", key |-> 0, value |-> 0, ttl |-> <<>>,
         t |-> 0, got |-> <<>>, keys |-> <<>>, ret |-> <<>>]

ThreadsConstructed ==
    /\ cache_lock = 0
    /\ cthread = [t \in CacheThreads |-> NoOp]
    /\ tcalls = 0

\* the callers' view of single calls is not used by the threads
cacheCallerVars == <<max_cache_size, ccall, cret, cpre, used, nops, nkeys>>

\* a lock that lets every thread in
EnterAlways(owner, t) == TRUE

\* threading.RLock: free, or held by the thread itself
CanEnter(owner, t) == owner \in {0, t}

\* a thread calls a method and arrives at "with self._lock"
cache_call(t, op, k, v, ttl) ==
    /\ cthread[t].pc = "idle"
    /\ cthread' = [cthread EXCEPT ![t] = [NoOp EXCEPT !.pc = "lock", !.op = op, !.key = k,
                                                      !.value = v, !.ttl = ttl]]
    /\ UNCHANGED <<cache, cache_order, stats, cnow, cache_lock>>

\* __enter__ of the lock
lock_entered(t) ==
    /\ cthread[t].pc = "lock"
    /\ CanEnter(cache_lock, t)
    /\ cache_lock' = t
    /\ cthread' = [cthread EXCEPT ![t].pc = cthread[t].op]
    /\ UNCHANGED <<cache, cache_order, stats, cnow, tcalls>>

\* the return statement, and __exit__ of the lock
Returns(t, r) ==
    /\ cthread' = [cthread EXCEPT ![t] = [NoOp EXCEPT !.ret = r]]
    /\ cache_lock' = 0

Goes(t, pc) ==
    /\ cthread' = [cthread EXCEPT ![t].pc = pc]
    /\ UNCHANGED cache_lock

\* del self._cache[key] for a key that is present
Deleted(k) ==
    /\ cache_order' = Remove(cache_order, k)
    /\ cache' = Restrict(cache, cache_order')

\* get: the membership test, then the read of the entry and of the clock
get_lookup(t) ==
    LET k == cthread[t].key
    IN  /\ cthread[t].pc = "get"
        /\ IF k \notin DOMAIN cache
           THEN /\ stats' = [stats EXCEPT !.misses = @ + 1]
                /\ Returns(t, <<>>)
           ELSE /\ cthread' = [cthread EXCEPT ![t].pc = "get_check", ![t].t = cnow,
                                 ![t].got = <<cache[k].value, cache[k].expiry>>]
                /\ UNCHANGED <<stats, cache_lock>>
        /\ UNCHANGED <<cache, cache_order, cnow, tcalls>>

\* get: the expiry test, and the delete or the refresh
get_check(t) ==
    LET k == cthread[t].key
        value == cthread[t].got[1]
        expiry == cthread[t].got[2]
        current_time == cthread[t].t
    IN  /\ cthread[t].pc = "get_check"
        /\ IF current_time >= expiry
           THEN IF k \in DOMAIN cache
                THEN /\ Deleted(k)
                     /\ stats' = [stats EXCEPT !.expired = @ + 1, !.misses = @ + 1]
                     /\ Returns(t, <<>>)
                ELSE /\ Returns(t, <<-1>>)
                     /\ UNCHANGED <<cache, cache_order, stats>>
           ELSE IF k \in DOMAIN cache
                THEN /\ cache_order' = move_to_end(cache_order, k)
                     /\ cache' = [cache EXCEPT ![k] =
                                    [value |-> value, expiry |-> expiry, access |-> current_time]]
                     /\ stats' = [stats EXCEPT !.hits = @ + 1]
                     /\ Returns(t, <<value>>)
                ELSE \* the assignment stores the entry again
                     /\ cache_order' = Append(cache_order, k)
                     /\ cache' = [x \in Range(cache_order') |->
                                    IF x = k
                                    THEN [value |-> value, expiry |-> expiry,
                                          access |-> current_time]
                                    ELSE cache[x]]
                     /\ stats' = [stats EXCEPT !.hits = @ + 1]
                     /\ Returns(t, <<value>>)
        /\ UNCHANGED <<cnow, tcalls>>

\* set: the clock, the capacity test and the eviction
set_room(t) ==
    LET k == cthread[t].key
        ev == IF k \notin DOMAIN cache /\ Len(cache_order) >= max_cache_size
              THEN evict_entries(cache, cache_order, stats, cnow)
              ELSE [cache |-> cache, order |-> cache_order, stats |-> stats]
    IN  /\ cthread[t].pc = "set"
        /\ cache' = ev.cache
        /\ cache_order' = ev.order
        /\ stats' = ev.stats
        /\ cthread' = [cthread EXCEPT ![t].pc = "set_store", ![t].t = cnow]
        /\ UNCHANGED <<cnow, cache_lock, tcalls>>

\* set: the assignment, move_to_end and the counter
set_store(t) ==
    LET k == cthread[t].key
        current_time == cthread[t].t
        o3 == move_to_end(AssignKey(cache_order, k), k)
    IN  /\ cthread[t].pc = "set_store"
        /\ cache_order' = o3
        /\ cache' = [x \in Range(o3) |->
                       IF x = k
                       THEN [value |-> cthread[t].value,
                             expiry |-> current_time + EffectiveTtl(cthread[t].ttl),
                             access |-> current_time]
                       ELSE cache[x]]
        /\ stats' = [stats EXCEPT !.sets = @ + 1]
        /\ Returns(t, <<>>)
        /\ UNCHANGED <<cnow, tcalls>>

\* delete: the membership test
delete_lookup(t) ==
    /\ cthread[t].pc = "delete"
    /\ IF cthread[t].key \in DOMAIN cache
       THEN Goes(t, "delete_del")
       ELSE Returns(t, <<0>>)
    /\ UNCHANGED <<cache, cache_order, stats, cnow, tcalls>>

\* delete: the del statement
delete_del(t) ==
    /\ cthread[t].pc = "delete_del"
    /\ IF cthread[t].key \in DOMAIN cache
       THEN Deleted(cthread[t].key) /\ Returns(t, <<1>>)
       ELSE Returns(t, <<-1>>) /\ UNCHANGED <<cache, cache_order>>
    /\ UNCHANGED <<stats, cnow, tcalls>>

\* cleanup_expired: the list of the expired keys
cleanup_scan(t) ==
    /\ cthread[t].pc = "cleanup_expired"
    /\ cthread' = [cthread EXCEPT ![t].pc = "cleanup_del", ![t].t = cnow,
                     ![t].keys = SelectSeq(cache_order, LAMBDA k : IsExpired(cache[k], cnow))]
    /\ UNCHANGED <<cache, cache_order, stats, cnow, cache_lock, tcalls>>

\* the keys of the list that the loop deletes before a del raises, if one does
Present(keys) ==
    LET absent == {i \in 1..Len(keys) : keys[i] \notin DOMAIN cache}
    IN  IF absent = {} THEN keys
        ELSE SubSeq(keys, 1, (CHOOSE i \in absent : \A j \in absent : i <= j) - 1)

\* cleanup_expired: the loop of del statements
cleanup_del(t) ==
    LET keys == cthread[t].keys
        gone == Present(keys)
    IN  /\ cthread[t].pc = "cleanup_del"
        /\ cache_order' = SelectSeq(cache_order, LAMBDA k : k \notin Range(gone))
        /\ cache' = Restrict(cache, cache_order')
        /\ stats' = CountExpired(stats, Len(gone))
        /\ Returns(t, IF gone = keys THEN <<Len(keys)>> ELSE <<-1>>)
        /\ UNCHANGED <<cnow, tcalls>>

\* get_stats: the counters
stats_read(t) ==
    /\ cthread[t].pc = "get_stats"
    /\ cthread' = [cthread EXCEPT ![t].pc = "stats_count",
                     ![t].got = <<stats.hits + stats.misses>>]
    /\ UNCHANGED <<cache, cache_order, stats, cnow, cache_lock, tcalls>>

\* get_stats: the clock and the count of the active items; total_items is returned
stats_count(t) ==
    /\ cthread[t].pc = "stats_count"
    /\ Returns(t, <<Len(cache_order)>>)
    /\ UNCHANGED <<cache, cache_order, stats, cnow, tcalls>>

\* time.time() moves on
ThreadTick ==
    /\ cnow + 1 \in ThreadClock
    /\ cnow' = cnow + 1
    /\ UNCHANGED <<cache, cache_order, stats, cthreadVars>>

CacheThreadNext ==
    \/ /\ tcalls < MaxThreadCalls
       /\ tcalls' = tcalls + 1
       /\ \E t \in CacheThreads :
            \/ \E k \in ThreadKeys : cache_call(t, "get", k, 0, <<>>)
            \/ \E k \in ThreadKeys, ttl \in ThreadTtls : cache_call(t, "set", k, tcalls + 1, ttl)
            \/ \E k \in ThreadKeys : cache_call(t, "delete", k, 0, <<>>)
            \/ cache_call(t, "cleanup_expired", 0, 0, <<>>)
            \/ cache_call(t, "get_stats", 0, 0, <<>>)
    \/ \E t \in CacheThreads :
            \/ lock_entered(t)
            \/ get_lookup(t) \/ get_check(t)
            \/ set_room(t) \/ set_store(t)
            \/ delete_lookup(t) \/ delete_del(t)
            \/ cleanup_scan(t) \/ cleanup_del(t)
            \/ stats_read(t) \/ stats_count(t)
    \/ ThreadTick

(***************************************************************************)
(* The activity log (backend_simple.py: activity_log, log_activity) and    *)
(* CleanupManager.cleanup_old_logs (utils/cleanup.py).  An activity is     *)
(* modelled by its number in the order of creation.                        *)
(***************************************************************************)
\* log_activity keeps 50 activities, scaled
LogCap == 3
\* calls of log_activity, update_cleanup_policy and cleanup_old_logs in a run
MaxActivityCalls == 6
\* cleanup_policies["logs"]["max_entries"] as constructed (1000): more than log_activity keeps
DefaultMaxEntries == LogCap + 1

NoResult == [removed_entries |-> 0, remaining_entries |-> 0]

ActivityConstructed ==
    /\ activity_log = <<>>
    /\ max_entries = DefaultMaxEntries
    /\ acall = "none"
    /\ aresult = NoResult
    /\ acalls = 0

\* activity_log.insert(0, activity); if len(activity_log) > 50: activity_log.pop()
log_activity ==
    LET activity == acalls + 1
        inserted == <<activity>> \o activity_log
    IN  /\ activity_log' = IF Len(inserted) > LogCap
                           THEN SubSeq(inserted, 1, Len(inserted) - 1)
                           ELSE inserted
        /\ acall' = "log_activity"
        /\ UNCHANGED <<max_entries, aresult>>

\* update_cleanup_policy("logs", max_entries=n)
update_cleanup_policy(n) ==
    /\ max_entries' = n
    /\ acall' = "update_cleanup_policy"
    /\ UNCHANGED <<activity_log, aresult>>

\* a trim that keeps the front of the list
KeepFirst(log, n) == SubSeq(log, 1, n)

\* del activity_log[:-max_entries]: the slice ends max_entries before the end of the
\* list; -0 is 0, so with max_entries = 0 the slice is empty
DelAllButLast(log, n) == IF n = 0 THEN log ELSE SubSeq(log, Len(log) - n + 1, Len(log))

cleanup_old_logs ==
    LET original_count == Len(activity_log)
    IN  /\ acall' = "cleanup_old_logs"
        /\ IF original_count > max_entries
           THEN /\ activity_log' = DelAllButLast(activity_log, max_entries)
                /\ aresult' = [removed_entries |-> original_count - max_entries,
                               remaining_entries |-> Len(activity_log')]
           ELSE /\ aresult' = [removed_entries |-> 0, remaining_entries |-> original_count]
                /\ UNCHANGED activity_log
        /\ UNCHANGED max_entries

ActivityNext ==
    /\ acalls < MaxActivityCalls
    /\ acalls' = acalls + 1
    /\ \/ log_activity
       \/ \E n \in 0..LogCap : update_cleanup_policy(n)
       \/ cleanup_old_logs

(***************************************************************************)
(* cache_result (cache_manager.py): the wrapper of a decorated function.   *)
(* The cache key is a digest of the arguments, so a call is modelled by    *)
(* its key.  Return values are <<>> for None and <<n>> for the value n.    *)
(***************************************************************************)
\* calls of the wrapped function in a run
MaxWrapperCalls == 3

\* the arguments the callers pass, as cache keys
WrapperArgs == {1, 2}

\* what the decorated function returns
FuncResults == {<<>>, <<1>>, <<2>>}

\* the decorator's ttl argument (300 by default), scaled
WrapperTtl == <<1>>

NoWrapper == [pc |-> "idle", key |-> 0, result |-> <<>>]

WrapperConstructed ==
    /\ wrapper = NoWrapper
    /\ wrapped = [key |-> 0, result |-> <<>>]
    /\ invoked = [a \in WrapperArgs |-> 0]
    /\ rcalls = 0

\* cached = cache_manager.get(cache_key); if cached is not None: return cached
wrapper_get(a) ==
    /\ wrapper.pc = "idle"
    /\ get(a)
    /\ LET cached == IF cret' = <<>> THEN <<>> ELSE cret'[1]
       IN  IF cached # <<>>
           THEN /\ wrapped' = [key |-> a, result |-> cached]
                /\ UNCHANGED wrapper
           ELSE /\ wrapper' = [pc |-> "func", key |-> a, result |-> <<>>]
                /\ UNCHANGED wrapped
    /\ UNCHANGED invoked

\* result = func(*args, **kwargs)
wrapper_func(r) ==
    /\ wrapper.pc = "func"
    /\ wrapper' = [wrapper EXCEPT !.pc = "set", !.result = r]
    /\ invoked' = [invoked EXCEPT ![wrapper.key] = @ + 1]
    /\ UNCHANGED <<cacheVars, wrapped, rcalls>>

\* cache_manager.set(cache_key, result, ttl); return result
wrapper_set ==
    /\ wrapper.pc = "set"
    /\ set(wrapper.key, wrapper.result, WrapperTtl)
    /\ wrapped' = [key |-> wrapper.key, result |-> wrapper.result]
    /\ wrapper' = NoWrapper
    /\ UNCHANGED <<invoked, rcalls>>

WrapperNext ==
    \/ /\ rcalls < MaxWrapperCalls
       /\ rcalls' = rcalls + 1
       /\ \E a \in WrapperArgs : wrapper_get(a)
    \/ \E r \in FuncResults : wrapper_func(r)
    \/ wrapper_set
    \/ CacheTick /\ UNCHANGED wrapperVars

(***************************************************************************)
(* The predict endpoint (backend_simple.py, backend_api.py): the model     *)
(* store, and per request the handler's position and its response.         *)
(***************************************************************************)
\* requests and trainings in a run
MaxPredictCalls == 4

\* the requests that can be under way at a time
Requests == {1, 2}

\* the model ids a request can name
StoreIds == {1, 2}

\* str(e) of the HTTPException raised for an unknown model: its status and detail,
\* or nothing, depending on the framework's version
ErrorTexts == {"404: Model not found", ""}

NoRequest == [pc |-> "none", model_id |-> 0, status_code |-> 0, detail |-> ""]

PredictConstructed ==
    /\ models_store = <<>>
    /\ predictions_logged = [m \in StoreIds |-> 0]
    /\ prediction_events = 0
    /\ request = [r \in Requests |-> NoRequest]
    /\ qcalls = 0

\* train_model_background stores the finished model
model_stored(m) ==
    /\ m \notin DOMAIN models_store
    /\ models_store' = [x \in DOMAIN models_store \cup {m} |->
                          IF x = m THEN 0 ELSE models_store[x]]
    /\ UNCHANGED <<predictions_logged, prediction_events, request>>

\* the HTTPException(404) is raised inside the try block, whose
\* "except Exception as e" turns it into HTTPException(400, detail=str(e))
AnsweredUnknown(m, text) ==
    [pc |-> "answered", model_id |-> m, status_code |-> 400, detail |-> text]

\* POST /api/models/{model_id}/predict, up to its first await
predict(r, m) ==
    /\ request[r].pc # "broadcast"
    /\ IF m \notin DOMAIN models_store
       THEN /\ \E text \in ErrorTexts :
                 request' = [request EXCEPT ![r] = AnsweredUnknown(m, text)]
            /\ UNCHANGED <<models_store, predictions_logged, prediction_events>>
       ELSE /\ models_store' = [models_store EXCEPT ![m] = @ + 1]
            /\ predictions_logged' = [predictions_logged EXCEPT ![m] = @ + 1]
            /\ prediction_events' = prediction_events + 1
            /\ request' = [request EXCEPT ![r] =
                             [pc |-> "broadcast", model_id |-> m, status_code |-> 0,
                              detail |-> ""]]

\* the broadcasts are done (their failures are caught): the prediction is returned
predict_returned(r) ==
    /\ request[r].pc = "broadcast"
    /\ request' = [request EXCEPT ![r].pc = "answered", ![r].status_code = 200]
    /\ UNCHANGED <<models_store, predictions_logged, prediction_events, qcalls>>

PredictNext ==
    \/ /\ qcalls < MaxPredictCalls
       /\ qcalls' = qcalls + 1
       /\ \/ \E m \in StoreIds : model_stored(m)
          \/ \E r \in Requests, m \in StoreIds : predict(r, m)
    \/ \E r \in Requests : predict_returned(r)

(***************************************************************************)
(* Specification of the CacheManager alone                                 *)
(***************************************************************************)
CacheInit ==
    /\ \E size \in (1..MaxCacheSize) \cup {NumKeys, BulkSize} : CacheConstructed(size)
    /\ TaskConstructed
    /\ ConnConstructed
    /\ PredConstructed
    /\ PredictConstructed
    /\ WrapperConstructed
    /\ ActivityConstructed
    /\ ThreadsConstructed
    /\ HealthConstructed

CacheNext == (SmallCalls \/ RoomyCalls \/ BulkFill \/ BulkCalls) /\ UNCHANGED <<taskVars, connVars, predVars, restarted, healthVars, cthreadVars, activityVars, wrapperVars, predictVars>>

CacheSpec == CacheInit /\ [][CacheNext]_vars

(***************************************************************************)
(* Specification of the BackgroundTaskManager alone                        *)
(***************************************************************************)
TaskInit == CacheConstructed(1) /\ TaskConstructed /\ ConnConstructed /\ PredConstructed /\ HealthConstructed /\ ThreadsConstructed /\ ActivityConstructed /\ WrapperConstructed /\ PredictConstructed
    /\ HealthConstructed

TaskSpec == TaskInit /\ [][TaskNext /\ UNCHANGED <<cacheVars, connVars, predVars, restarted, healthVars, cthreadVars, activityVars, wrapperVars, predictVars>>]_vars

(***************************************************************************)
(* Specification of the BackgroundTaskManager under registrations and      *)
(* starts only, which remembers for which task ids start_all_tasks has     *)
(* been called since their last registration                               *)
(***************************************************************************)
ReregisterNext ==
    \/ /\ ncalls < MaxCalls
       /\ ncalls' = ncalls + 1
       /\ \/ \E t \in KnownTaskIds, f \in Funcs, d \in Delays :
               /\ register_periodic_task(t, f, 1, d)
               /\ restarted' = restarted \ {t}
          \/ /\ start_all_tasks
             /\ restarted' = DOMAIN periodic_tasks
    \/ /\ ncalls' = ncalls
       /\ \E l \in 1..Len(loops) : run_periodic_task(l)
       /\ UNCHANGED restarted

ReregisterSpec ==
    TaskInit /\ [][ReregisterNext /\ UNCHANGED <<cacheVars, connVars, predVars, healthVars, cthreadVars, activityVars, wrapperVars, predictVars>>]_vars

(***************************************************************************)
(* Specification of the ConnectionManager alone                            *)
(***************************************************************************)
ConnInit == CacheConstructed(1) /\ TaskConstructed /\ ConnConstructed /\ PredConstructed /\ HealthConstructed /\ ThreadsConstructed /\ ActivityConstructed /\ WrapperConstructed /\ PredictConstructed
    /\ HealthConstructed

ConnSpec == ConnInit /\ [][ConnNext /\ UNCHANGED <<cacheVars, taskVars, ep, predVars, restarted, healthVars, cthreadVars, activityVars, wrapperVars, predictVars>>]_vars

(***************************************************************************)
(* Specification of the registry under connects, heartbeats and cleanups   *)
(***************************************************************************)
CleanupSpec == ConnInit /\ [][CleanupNext /\ UNCHANGED <<cacheVars, taskVars, ep, predVars, restarted, healthVars, cthreadVars, activityVars, wrapperVars, predictVars>>]_vars

\* the server's own flows: a connect under way goes on, through the accept
\* handshake and through the closes of its stale cleanup
CleanupServer ==
    /\ \/ \E c \in Clients : connect_accepted(c)
       \/ \E c \in Clients : cleanup_closed(c)
    /\ UNCHANGED <<wcalls, cacheVars, taskVars, ep, predVars, restarted, healthVars, cthreadVars, activityVars, wrapperVars, predictVars>>

\* the same, with the server's flows never starved; nothing obliges a client
\* to connect or to ping, or the clock to stop
CleanupFairSpec == CleanupSpec /\ WF_vars(CleanupServer)

(***************************************************************************)
(* Specification of the cleanups over transports that clients may close    *)
(***************************************************************************)
ClosedTransportSpec ==
    ConnInit /\ [][ClosedTransportNext /\ UNCHANGED <<cacheVars, taskVars, ep, predVars, restarted, healthVars, cthreadVars, activityVars, wrapperVars, predictVars>>]_vars

(***************************************************************************)
(* Specification of the registry with client ids proposed by the callers   *)
(***************************************************************************)
ProposedIdSpec ==
    ConnInit /\ [][ProposedIdNext /\ UNCHANGED <<cacheVars, taskVars, ep, predVars, restarted, healthVars, cthreadVars, activityVars, wrapperVars, predictVars>>]_vars

(***************************************************************************)
(* Specification of the websocket endpoint handlers over the registry      *)
(***************************************************************************)
EndpointSpec == ConnInit /\ [][EndpointNext /\ UNCHANGED <<cacheVars, taskVars, predVars, restarted, healthVars, cthreadVars, activityVars, wrapperVars, predictVars>>]_vars

\* the same, with the server's own steps never starved; nothing obliges a
\* client to send or to close, or the clock to run
EndpointFairSpec ==
    EndpointSpec /\ WF_vars(EndpointServer /\ UNCHANGED <<wcalls, cacheVars, taskVars, predVars, restarted, healthVars, cthreadVars, activityVars, wrapperVars, predictVars>>)

(***************************************************************************)
(* Specification of one broadcast_json call on its own: it starts from any *)
(* registry the manager can hold, with any of the registered transports    *)
(* broken, and nothing else runs until it has returned                     *)
(***************************************************************************)
BroadcastInit ==
    /\ CacheConstructed(1)
    /\ TaskConstructed
    /\ \E n \in 0..NumClients :
         \E live \in SUBSET (1..n), t \in {0, SlowAfter, TickSeconds} :
         \E F \in SUBSET live, pings \in [live -> {0, t}] :
            /\ entries = [i \in 1..n |-> i]
            /\ active_connections = [c \in live |-> ConnInfo(c, pings[c])]
            /\ last_cleanup = 0
            /\ wnow = t
            /\ conn = [c \in Clients |->
                        [NoConnect EXCEPT !.pc = IF c \in live THEN "open"
                                                 ELSE IF c <= n THEN "closed" ELSE "idle"]]
            /\ broken = F
            /\ bc = [b \in Broadcasts |-> NoBroadcast]
            /\ wcalls = 0
    /\ ep = [c \in Clients |-> NoEndpoint]
    /\ PredConstructed
    /\ PredictConstructed
    /\ WrapperConstructed
    /\ ActivityConstructed
    /\ ThreadsConstructed
    /\ HealthConstructed

BroadcastSpec == BroadcastInit /\ [][BroadcastNext /\ UNCHANGED <<cacheVars, taskVars, ep, predVars, restarted, healthVars, cthreadVars, activityVars, wrapperVars, predictVars>>]_vars

(***************************************************************************)
(* Specification of the prediction tracking alone, its functions called    *)
(* from several threads                                                    *)
(***************************************************************************)
TrackingInit == CacheConstructed(1) /\ TaskConstructed /\ ConnConstructed /\ PredConstructed /\ HealthConstructed /\ ThreadsConstructed /\ ActivityConstructed /\ WrapperConstructed /\ PredictConstructed
    /\ HealthConstructed

TrackingSpec == TrackingInit /\ [][PredNext /\ UNCHANGED <<cacheVars, taskVars, connVars, restarted, healthVars, cthreadVars, activityVars, wrapperVars, predictVars>>]_vars

(***************************************************************************)
(* Specification of the health monitor alone                               *)
(***************************************************************************)
HealthInit == CacheConstructed(1) /\ TaskConstructed /\ ConnConstructed /\ PredConstructed /\ HealthConstructed /\ ThreadsConstructed /\ ActivityConstructed /\ WrapperConstructed /\ PredictConstructed

HealthSpec ==
    HealthInit /\ [][HealthNext /\ UNCHANGED <<cacheVars, taskVars, connVars, predVars, restarted, cthreadVars, activityVars, wrapperVars, predictVars>>]_vars

(***************************************************************************)
(* Specification of the CacheManager under threads                         *)
(***************************************************************************)
CacheThreadInit ==
    /\ \E size \in ThreadCapacities : CacheConstructed(size)
    /\ TaskConstructed
    /\ ConnConstructed
    /\ PredConstructed
    /\ PredictConstructed
    /\ WrapperConstructed
    /\ ActivityConstructed
    /\ HealthConstructed
    /\ ThreadsConstructed

CacheThreadSpec ==
    CacheThreadInit /\ [][CacheThreadNext /\ UNCHANGED <<cacheCallerVars, taskVars, connVars, predVars, restarted, healthVars, activityVars, wrapperVars, predictVars>>]_vars

(***************************************************************************)
(* Specification of the activity log alone                                 *)
(***************************************************************************)
ActivityInit ==
    /\ CacheConstructed(1)
    /\ TaskConstructed
    /\ ConnConstructed
    /\ PredConstructed
    /\ PredictConstructed
    /\ WrapperConstructed
    /\ HealthConstructed
    /\ ThreadsConstructed
    /\ ActivityConstructed

ActivitySpec ==
    ActivityInit /\ [][ActivityNext /\ UNCHANGED <<cacheVars, taskVars, connVars, predVars, restarted, healthVars, cthreadVars, wrapperVars, predictVars>>]_vars

(***************************************************************************)
(* Specification of cache_result alone                                     *)
(***************************************************************************)
WrapperInit ==
    /\ \E size \in ThreadCapacities : CacheConstructed(size)
    /\ TaskConstructed
    /\ ConnConstructed
    /\ PredConstructed
    /\ PredictConstructed
    /\ HealthConstructed
    /\ ThreadsConstructed
    /\ ActivityConstructed
    /\ WrapperConstructed

WrapperSpec ==
    WrapperInit /\ [][WrapperNext /\ UNCHANGED <<taskVars, connVars, predVars, restarted, healthVars, cthreadVars, activityVars, predictVars>>]_vars

(***************************************************************************)
(* Specification of the predict endpoint alone                             *)
(***************************************************************************)
PredictInit ==
    /\ CacheConstructed(1)
    /\ TaskConstructed
    /\ ConnConstructed
    /\ PredConstructed
    /\ HealthConstructed
    /\ ThreadsConstructed
    /\ ActivityConstructed
    /\ WrapperConstructed
    /\ PredictConstructed

PredictSpec ==
    PredictInit /\ [][PredictNext /\ UNCHANGED <<cacheVars, taskVars, connVars, predVars, restarted, healthVars, cthreadVars, activityVars, wrapperVars>>]_vars

(***************************************************************************)
(* Properties of the CacheManager (checked under CacheSpec)                *)
(***************************************************************************)
\* what the last call was, in terms of the cache it started from
PreKeys == Range(cpre.order)
IsSet == ccall.op = "set"
IsGet == ccall.op = "get"
\* set of a key the cache did not hold, made with the cache at capacity
SetAtCapacity == IsSet /\ ccall.key \notin PreKeys /\ Len(cpre.order) >= max_cache_size
\* the entries that were expired when the call's eviction looked at the clock
PreExpired == {k \in PreKeys : cpre.cache[k].expiry <= ccall.t2}
\* the entries the call removed
Removed == PreKeys \ DOMAIN cache
\* position of key k in the recency history kept before the call
UsePos(k) == CHOOSE i \in 1..Len(cpre.used) : cpre.used[i] = k

C5_ExpiredNeverReturned ==
    IsGet =>
      /\ (ccall.key \in PreKeys /\ cpre.cache[ccall.key].expiry <= ccall.t) =>
            /\ cret = <<>>
            /\ ccall.key \notin DOMAIN cache
            /\ stats.expired = cpre.stats.expired + 1
            /\ stats.misses = cpre.stats.misses + 1
      /\ cret # <<>> =>
            /\ ccall.key \in PreKeys
            /\ cpre.cache[ccall.key].expiry > ccall.t
            /\ cret = <<cpre.cache[ccall.key].value>>

\* C5 witness: a get of an entry that expires exactly now.
C5_Witness ==
    /\ IsGet
    /\ ccall.key \in PreKeys
    /\ cpre.cache[ccall.key].expiry = ccall.t

\* C6: a set of a new key into a cache at capacity that holds an expired
\* entry removes every expired entry, and evicts a non-expired entry only if
\* fewer expired entries were removed than the quota max(1, size div 10).
C6_ExpiredFirst ==
    (SetAtCapacity /\ PreExpired # {}) =>
      /\ PreExpired \subseteq Removed
      /\ (Removed \ PreExpired # {}) =>
            Cardinality(PreExpired) < Max(1, Len(cpre.order) \div 10)
      /\ stats.expired = cpre.stats.expired + Cardinality(PreExpired)
      /\ stats.evictions = cpre.stats.evictions + Cardinality(Removed \ PreExpired)

\* C6 witness: such a set removed one expired entry and, the quota being 2,
\* evicted one entry that was not expired.
C6_Witness ==
    /\ SetAtCapacity
    /\ Cardinality(PreExpired) = 1
    /\ Cardinality(Removed \ PreExpired) = 1

\* C6 witness of the small case: the expired entry was not the oldest one, and
\* the oldest one stays.
C6_WitnessOldestStays ==
    /\ SetAtCapacity
    /\ PreExpired # {}
    /\ cpre.order[1] \notin PreExpired
    /\ cpre.order[1] \in DOMAIN cache

\* C7: a set of a new key into a cache at capacity with no expired entry
\* evicts exactly the quota of entries, and they are the least recently used:
\* no evicted entry was used (set, or read with a hit) after a surviving one.
C7_LruEvicted ==
    (SetAtCapacity /\ PreExpired = {}) =>
      /\ Cardinality(Removed) = Min(Len(cpre.order), Max(1, Len(cpre.order) \div 10))
      /\ \A e \in Removed : \A k \in PreKeys \ Removed : UsePos(e) < UsePos(k)
      /\ ccall.key \in DOMAIN cache

\* C7 witness: capacity 2; set 1, set 2, get 1, set 3 evicts 2 and leaves 1 and 3.
C7_Witness ==
    /\ SetAtCapacity /\ PreExpired = {}
    /\ max_cache_size = 2
    /\ ccall.key = 3
    /\ cpre.stats.hits = 1
    /\ cpre.stats.sets = 2
    /\ nops = 4
    /\ DOMAIN cache = {1, 3}
    /\ Removed = {2}

\* C8 (as claimed): for every ttl passed to set the entry expires at the set
\* time plus ttl; a get before that time returns the value, a get at or after
\* it is a miss.
C8_TtlExact ==
    /\ (IsSet /\ ccall.ttl # <<>>) =>
          cache[ccall.key].expiry = ccall.t + ccall.ttl[1]
    /\ (IsGet /\ ccall.key \in PreKeys) =>
          IF ccall.t < cpre.cache[ccall.key].expiry
          THEN cret = <<cpre.cache[ccall.key].value>>
          ELSE cret = <<>>


(***************************************************************************)
(* Properties of the BackgroundTaskManager (checked under TaskSpec)        *)
(***************************************************************************)
\* the PeriodicTask objects whose callable raises on every invocation
AlwaysRaising(os) == {o \in 1..Len(os) : os[o].func = "raises"}

\* loop l is inside an invocation of its callable
InCall(l) == loops[l].pc = "call"

\* in this step the invocation in loop l ended, and not with a cancellation
InvocationEnds(l) == InCall(l) /\ ~loops[l].cancel /\ loops'[l].pc # "call"

\* in this step the invocation in loop l ended by raising: it ended and no
\* run was recorded
Failure(l) ==
    /\ InvocationEnds(l)
    /\ objs'[loops[l].obj].run_count = objs[loops[l].obj].run_count

\* C9 as stated: for a registered task whose callable raises on every
\* invocation, every invocation that ends adds one to run_count, and
\* error_count equals run_count in every state.
C9_RunCountFollowsErrors ==
    [][\A o \in AlwaysRaising(objs) :
         /\ objs'[o].error_count = objs'[o].run_count
         /\ \A l \in 1..Len(loops) :
              (loops[l].obj = o /\ InvocationEnds(l))
                 => objs'[o].run_count = objs[o].run_count + 1]_vars

\* C9 amended: for a registered task whose callable raises on every
\* invocation, error_count increases by one with every invocation that ends
\* (one per interval) and by nothing else, and run_count stays 0 in every
\* state of the scheduler.
C9_ErrorsCountedRunsNot ==
    [][\A o \in AlwaysRaising(objs') :
         /\ objs'[o].run_count = 0
         /\ IF o > Len(objs)
            THEN objs'[o].error_count = 0
            ELSE objs'[o].error_count = objs[o].error_count +
                   Cardinality({l \in 1..Len(loops) :
                                  loops[l].obj = o /\ InvocationEnds(l)})]_vars

\* an always-raising task has been invoked MaxRuns times, every invocation
\* has raised, and its loop waits for the next interval
C9_Witness ==
    \E l \in 1..Len(loops) :
        /\ loops[l].pc = "wait"
        /\ objs[loops[l].obj].func = "raises"
        /\ objs[loops[l].obj].calls = MaxRuns
        /\ objs[loops[l].obj].error_count = MaxRuns
        /\ objs[loops[l].obj].run_count = 0

\* C10: an exception raised by a task's callable does not end that task's
\* loop and does not touch another task: in the step of the failure the
\* loop goes on to its wait, error_count of its task grows by one, and every
\* other PeriodicTask, every other loop and both registries are unchanged;
\* and a loop that waits, with no cancellation requested and no shutdown
\* signalled, goes nowhere but into the next invocation.
C10_FailureIsolated ==
    [][\A l \in 1..Len(loops) :
         /\ Failure(l) =>
              /\ loops'[l] = [loops[l] EXCEPT !.pc = "wait"]
              /\ objs'[loops[l].obj] =
                    [objs[loops[l].obj] EXCEPT !.error_count = @ + 1]
              /\ \A o \in 1..Len(objs) : o # loops[l].obj => objs'[o] = objs[o]
              /\ \A m \in 1..Len(loops) : m # l => loops'[m] = loops[m]
              /\ Len(objs') = Len(objs) /\ Len(loops') = Len(loops)
              /\ tasks' = tasks /\ periodic_tasks' = periodic_tasks
         /\ (/\ loops[l].pc = "wait" /\ ~loops'[l].cancel /\ ~shutdown_event
             /\ loops'[l].pc # "wait")
              => /\ loops'[l] = [loops[l] EXCEPT !.pc = "call"]
                 /\ objs'[loops[l].obj].calls = objs[loops[l].obj].calls + 1]_vars

\* a task has failed and is being invoked again, while the loop of another
\* task, which it has not disturbed, is running
C10_Witness ==
    \E l, m \in 1..Len(loops) :
        /\ loops[l].obj # loops[m].obj
        /\ loops[l].pc = "call"
        /\ objs[loops[l].obj].calls = 2
        /\ objs[loops[l].obj].error_count = 1
        /\ loops[m].pc \in {"call", "wait"}
        /\ objs[loops[m].obj].error_count = 0


(***************************************************************************)
(* Properties of the ConnectionManager (checked under ConnSpec, and under  *)
(* BroadcastSpec for a broadcast on its own)                               *)
(***************************************************************************)
Registered == DOMAIN active_connections

\* the number of times client c occurs in the list s
Count(s, c) == Cardinality({i \in 1..Len(s) : s[i] = c})

\* in this step client c makes its connect call
ConnectCalled(c) == conn[c].pc = "idle" /\ conn'[c].pc # "idle"

\* C1: under every interleaving of connect, disconnect, broadcast and stale
\* cleanup flows the registry holds at most max_connections entries, and a
\* connect made while max_connections connections are registered is
\* rejected and leaves the registry as it is.
C1_CapacityInvariant ==
    [][/\ Cardinality(Registered') <= max_connections
       /\ \A c \in Clients :
            (ConnectCalled(c) /\ Cardinality(Registered) = max_connections)
               => conn'[c].pc = "rejected" /\ active_connections' = active_connections]_vars

\* C2: for any registry contents and any set F of registered connections
\* whose send raises, a broadcast of normal priority that runs on its own
\* returns, having delivered the message exactly once to every registered
\* connection outside F and to none in F; on return the connections in F
\* are gone from the registry and the others are still registered.
C2_PartialFailureIsolated ==
    /\ bc[1].pc # "raised"
    /\ (bc[1].pc = "done" /\ bc[1].priority = "normal") =>
          /\ Registered = bc[1].reg0 \ broken
          /\ \A c \in Clients :
               Count(bc[1].got, c) = IF c \in bc[1].reg0 \ broken THEN 1 ELSE 0
          /\ \A c \in Registered : active_connections[c].message_count = 1

\* three connections were registered, the send to the second raised, and the
\* broadcast has returned
C2_Witness ==
    /\ bc[1].pc = "done" /\ bc[1].priority = "normal"
    /\ bc[1].reg0 = {1, 2, 3}
    /\ broken = {2}
    /\ bc[1].failed = <<2>>

\* C3: a broadcast never raises to its caller, and when it has returned it
\* has attempted every connection that was registered when it started and
\* is still registered, whatever other flows did to the registry while it
\* was suspended in a send.
C3_BroadcastNeverRaises ==
    \A b \in Broadcasts :
        /\ bc[b].pc # "raised"
        /\ (bc[b].pc = "done" /\ bc[b].priority = "normal") =>
              \A c \in bc[b].reg0 \cap Registered :
                  Count(bc[b].got, c) + Count(bc[b].failed, c) >= 1


\* in this step a stale cleanup, suspended in the close of a connection,
\* goes on
CleanupStep == \E d \in Clients : conn[d].pc = "closing" /\ conn'[d] # conn[d]

\* C11: a connection whose last ping has never been more than StaleAfter
\* (120 s) old is never removed from the registry by a stale cleanup, in any
\* sequence of connects, heartbeats and cleanups.
C11_FreshNeverEvicted ==
    [][\A c \in Registered :
         (CleanupStep /\ c \notin Registered') => conn[c].lapsed]_vars

\* a cleanup has run and has removed a connection; another connection, which
\* was registered before and has pinged at every step of the clock, is still
\* registered
C11_Witness ==
    \E c, v, d \in Clients :
        /\ c < d /\ v < d /\ c # v
        /\ conn[d].ran /\ conn[d].pc = "open" /\ v \in conn[d].due
        /\ v \notin Registered
        /\ c \in Registered /\ ~conn[c].lapsed
        /\ active_connections[c].last_ping > 0

\* C12 as stated: a connection whose last ping is more than 120 s old is
\* absent from the registry once the next cleanup check that a connect
\* triggers has returned.
C12_StaleGoneAfterCheck ==
    \A d \in Clients :
        conn[d].pc \in {"open", "closed"} => conn[d].due \cap Registered = {}

\* C12 amended: a connection whose last ping is more than 120 s old when a
\* connect makes its cleanup check is absent from the registry once that
\* check has returned, provided the check found a cleanup due (at least
\* cleanup_interval since the last one, or since construction).
C12_StaleGoneAfterDueCheck ==
    \A d \in Clients :
        (conn[d].pc \in {"open", "closed"} /\ conn[d].ran)
           => conn[d].due \cap Registered = {}

\* a due cleanup has returned after removing two stale connections
C12_Witness ==
    \E d \in Clients :
        /\ conn[d].pc = "open" /\ conn[d].ran
        /\ Cardinality(conn[d].due) = 2
        /\ Registered = {d}


\* in this step disconnect is called for client c's websocket
DisconnectCalled(c) == conn'[c].disconnects = conn[c].disconnects + 1

\* C13: disconnect removes the entry of its websocket and nothing else; for a
\* websocket that is not, or no longer, registered it leaves the registry
\* exactly as it was, so a second disconnect changes nothing, and no other
\* connection's record is removed or changed.
C13_DisconnectIdempotent ==
    [][\A c \in Clients : DisconnectCalled(c) =>
         /\ Registered' = Registered \ {c}
         /\ \A o \in Registered \ {c} : active_connections'[o] = active_connections[o]
         /\ c \notin Registered => active_connections' = active_connections
         /\ entries' = entries]_vars

\* disconnect has been called twice for a websocket that was registered,
\* and once for a rejected one, while another connection stays registered
C13_Witness ==
    \E c, r, o \in Clients :
        /\ conn[c].disconnects = 2 /\ conn[c].pc = "closed"
        /\ conn[r].disconnects = 1 /\ conn[r].pc = "rejected"
        /\ o \in Registered /\ conn[o].disconnects = 0


\* C14: a connect called while the registry holds max_connections or more
\* entries is rejected: it returns the rejected result, the websocket is
\* closed with the server-overloaded code, the accept handshake is never
\* made for it, and the registry, ids and records, is unchanged.
C14_RejectedAtCapacity ==
    [][\A c \in Clients :
         /\ (ConnectCalled(c) /\ Cardinality(Registered) >= max_connections) =>
               /\ conn'[c].pc = "rejected"
               /\ conn'[c].code = CloseOverloaded
               /\ active_connections' = active_connections
               /\ entries' = entries
         /\ conn[c].pc = "rejected" =>
               /\ conn'[c].pc = "rejected"
               /\ c \notin Registered'
               /\ \A i \in 1..Len(entries') : entries'[i] # c]_vars

\* a connect has been rejected with the registry full, and the registry
\* still holds the connections it held
C14_Witness ==
    \E c \in Clients :
        /\ conn[c].pc = "rejected" /\ conn[c].code = CloseOverloaded
        /\ c \in broken
        /\ Cardinality(Registered) = max_connections
        /\ \A o \in Registered : conn[o].pc = "open"


\* C15: every registered connection that stops sending heartbeats is
\* eventually closed by the server and removed from the registry, with the
\* server's own flows running fairly and no further connect assumed: a
\* registered connection whose last ping is more than StaleAfter old leads
\* to its removal (or to a ping of it after all).
C15_StaleEventuallyRemoved ==
    \A c \in Clients :
        (c \in Registered /\ wnow - active_connections[c].last_ping > StaleAfter)
           ~> (c \notin Registered \/ wnow - active_connections[c].last_ping <= StaleAfter)


(***************************************************************************)
(* C16: when a client closes its connection, the close is observed by the  *)
(* connection's receive loop, and the connection's entry leaves the        *)
(* registry (the claim: removed by the connection's own endpoint handler)  *)
(***************************************************************************)
C16_ClosedLeavesRegistry ==
    \A c \in Clients :
        (ep[c].hung_up /\ c \in Registered)
           ~> (ep[c].recv = "ended" /\ c \notin Registered)

(***************************************************************************)
(* C17: every ping with timestamp t of a registered client whose websocket *)
(* is open is answered with a pong that carries t                          *)
(***************************************************************************)
C17_PingAnswered ==
    \A c \in Clients, t \in Stamps :
        (c \in Registered /\ c \notin broken /\ Ping(t) \in Range(ep[c].inbox))
           ~> (c \in broken \/ (Ping(t) \notin Range(ep[c].inbox) /\ Pong(t) \in Range(ep[c].got)))


(***************************************************************************)
(* C18: a shutdown call that has ended has returned to its caller, with    *)
(* the shutdown signal set and the executor released                       *)
(***************************************************************************)
C18_ShutdownReturns ==
    sd.pc \notin {"idle", "waiting"}
        => (sd.pc = "returned" /\ shutdown_event /\ executor_down)


(***************************************************************************)
(* C19: every loop that is still running is the loop the manager tracks    *)
(* for its task_id, so that at most one loop runs per task_id              *)
(***************************************************************************)
Running(l) == ~Done(loops[l])
TaskIdOf(l) == objs[loops[l].obj].task_id

C19_OneTrackedLoopPerTask ==
    \A l \in 1..Len(loops) :
        Running(l) => (TaskIdOf(l) \in DOMAIN tasks /\ tasks[TaskIdOf(l)] = l)


(***************************************************************************)
(* C20: a stop_task call that was suspended ends without raising, with the *)
(* loop it awaited terminated and the task reported as not running; a      *)
(* second stop of the same task makes no exception to this                 *)
(***************************************************************************)
StopEnds(s) == s \in stops /\ s \notin stops'
IsRunning(task_id) == task_id \in DOMAIN tasks /\ ~Done(loops[tasks[task_id]])

C20_StopIdempotent ==
    [][\A s \in stops :
          StopEnds(s) => /\ ~DelRaises(tasks, s.task_id)
                         /\ Done(loops'[s.loop])
                         /\ ~IsRunning(s.task_id)']_vars

(***************************************************************************)
(* C21: the run_count and error_count that get_task_status reports for a   *)
(* task_id never decrease, whatever is called (register of an id already   *)
(* registered included)                                                    *)
(***************************************************************************)
\* the counters get_task_status reports for task_id
Status(ptasks, os, task_id) ==
    [run_count |-> os[ptasks[task_id]].run_count,
     error_count |-> os[ptasks[task_id]].error_count]

C21_CountersNeverDecrease ==
    [][\A t \in DOMAIN periodic_tasks :
          /\ Status(periodic_tasks', objs', t).run_count >= Status(periodic_tasks, objs, t).run_count
          /\ Status(periodic_tasks', objs', t).error_count >= Status(periodic_tasks, objs, t).error_count]_vars

(***************************************************************************)
(* C22: a record of the registry keeps its websocket for as long as its id *)
(* is registered: no connect call overwrites or discards the record of a   *)
(* live connection                                                         *)
(***************************************************************************)
C22_RecordNotOverwritten ==
    [][\A id \in DOMAIN active_connections :
          id \in DOMAIN active_connections'
             => active_connections'[id].websocket = active_connections[id].websocket]_vars

(***************************************************************************)
(* C23: at most one flow at a time is inside a send on the websocket of a  *)
(* connection (the pong of its receive task, its metrics loop, broadcasts) *)
(***************************************************************************)
\* the flows of client c's endpoint handler that are suspended in a send on
\* its websocket
HandlerSends(c) == {f \in Flows : ep[c][f] \in {"ponging", "metrics"}}
\* the broadcasts suspended in a send to client c (whose websocket is c)
BroadcastSends(c) == {b \in Broadcasts : bc[b].pc = "sending" /\ bc[b].cur = c}

C23_OneSendPerTransport ==
    \A c \in Clients : Cardinality(HandlerSends(c)) + Cardinality(BroadcastSends(c)) <= 1

(***************************************************************************)
(* C24: an invocation that is under way when shutdown has been called runs *)
(* to its end and is counted: it ends with run_count or error_count of its *)
(* task one higher, never by being interrupted                             *)
(***************************************************************************)
C24_ShutdownBetweenIterations ==
    [][\A l \in 1..Len(loops) :
          (InCall(l) /\ shutdown_event /\ loops'[l].pc # "call")
             => \/ objs'[loops[l].obj].run_count = objs[loops[l].obj].run_count + 1
                \/ objs'[loops[l].obj].error_count = objs[loops[l].obj].error_count + 1]_vars

(***************************************************************************)
(* Properties of the prediction tracking (checked under TrackingSpec)      *)
(***************************************************************************)
IsSuffix(s, full) ==
    /\ Len(s) <= Len(full)
    /\ s = SubSeq(full, Len(full) - Len(s) + 1, Len(full))

\* C25: the history of a model never holds more than maxlen records, and it
\* holds the most recently logged records in the order they were logged: it
\* is the tail of the sequence of all records logged for the model, and, as
\* long as no cleanup has dropped a record, it is the whole of that sequence
\* until this is longer than maxlen and its last maxlen records from then on.
C25_HistoryHoldsMostRecent ==
    \A m \in DOMAIN prediction_history :
        /\ Len(prediction_history[m]) <= maxlen
        /\ IsSuffix(prediction_history[m], log_order[m])
        /\ cleaned[m] = 0 =>
              Len(prediction_history[m]) = Min(maxlen, Len(log_order[m]))

\* a record has been logged into a full history
C25_FullHistoryLogged ==
    \E m \in DOMAIN prediction_history :
        /\ cleaned[m] = 0
        /\ Len(log_order[m]) > maxlen
        /\ Len(prediction_history[m]) = maxlen

Quiet == \A t \in Threads : thread[t].pc = "idle"

RECURSIVE Total(_, _)
Total(f, S) == IF S = {} THEN 0
               ELSE LET m == CHOOSE x \in S : TRUE
                    IN  Cardinality(f[m]) + Total(f, S \ {m})

Inputs(history) == {history[i].input : i \in 1..Len(history)}

\* C26: when the calls of log_prediction_with_metrics that the threads made
\* have all returned, total_predictions has grown by the number of calls,
\* and the history of a model that was logged at most maxlen times (and was
\* not cleaned) holds one record for each of its calls: none lost, none twice.
C26_ConcurrentLoggingLosesNothing ==
    Quiet =>
        /\ memory_stats.total_predictions = Total(requested, ModelIds)
        /\ \A m \in ModelIds :
              (cleaned[m] = 0 /\ Cardinality(requested[m]) \in 1..maxlen) =>
                  /\ m \in DOMAIN prediction_history
                  /\ Len(prediction_history[m]) = Cardinality(requested[m])
                  /\ Inputs(prediction_history[m]) = requested[m]

\* two threads have logged for one model, one of them having had to wait for
\* the lock, and both calls have returned
C26_ContendedCallsReturned ==
    /\ Quiet
    /\ \E t \in Threads : thread[t].waited
    /\ \E m \in ModelIds :
          /\ cleaned[m] = 0
          /\ Cardinality(requested[m]) = maxlen
          /\ memory_stats.total_predictions >= maxlen

(***************************************************************************)
(* Properties of one broadcast (checked under BroadcastSpec), continued    *)
(***************************************************************************)
Attempts(b, c) == Count(bc[b].got, c) + Count(bc[b].failed, c)

\* C27: no step of a broadcast with priority "low" starts a send to a
\* registered connection whose last ping is more than SlowAfter old, and
\* every step leaves such a connection registered with its record as it
\* was; a broadcast with priority "normal" that has returned has attempted
\* one send to every connection that was registered when it began.
C27_LowSkipsSlowOnly ==
    /\ [][\A c \in DOMAIN active_connections :
            (bc'[1].priority = "low" /\ wnow - active_connections[c].last_ping > SlowAfter) =>
                /\ bc'[1].cur # c
                /\ c \in DOMAIN active_connections'
                /\ active_connections'[c] = active_connections[c]]_vars
    /\ [](\A c \in DOMAIN active_connections :
            (bc[1].priority = "low" /\ wnow - active_connections[c].last_ping > SlowAfter) =>
                Attempts(1, c) = 0)
    /\ []((bc[1].pc = "done" /\ bc[1].priority = "normal") =>
            \A c \in bc[1].reg0 : Attempts(1, c) = 1)

\* a low priority broadcast has returned: it sent to a connection and it
\* passed over another, whose last ping was too old
C27_SlowPassedOver ==
    /\ bc[1].pc = "done"
    /\ bc[1].priority = "low"
    /\ bc[1].got # <<>>
    /\ \E c \in bc[1].reg0 :
          /\ c \in DOMAIN active_connections
          /\ wnow - active_connections[c].last_ping > SlowAfter
          /\ Attempts(1, c) = 0

\* C28: no step lowers the message_count or the bytes_sent of a connection
\* that stays registered; a step changes them only when the send of the
\* broadcast to that connection returns, and then by 1 and by the size of
\* the serialized payload; so during and after a broadcast every registered
\* connection has counted just the sends to it that succeeded, and a
\* connection that was passed over or whose send raised has counted nothing.
C28_CountersFollowSends ==
    /\ [][\A c \in DOMAIN active_connections \cap DOMAIN active_connections' :
            LET before == active_connections[c]
                after == active_connections'[c]
            IN  \/ /\ after.message_count = before.message_count
                   /\ after.bytes_sent = before.bytes_sent
                \/ /\ bc[1].pc = "sending" /\ bc[1].cur = c /\ c \notin broken
                   /\ after.message_count = before.message_count + 1
                   /\ after.bytes_sent = before.bytes_sent + bc[1].size]_vars
    /\ [](\A c \in DOMAIN active_connections :
            /\ Count(bc[1].got, c) <= 1
            /\ active_connections[c].message_count = Count(bc[1].got, c)
            /\ active_connections[c].bytes_sent = bc[1].size * Count(bc[1].got, c))

\* a broadcast of the longer payload has returned: a send succeeded, and a
\* connection that was passed over is still registered
C28_SentAndPassedOver ==
    /\ bc[1].pc = "done"
    /\ bc[1].size = 5
    /\ bc[1].failed # <<>>
    /\ \E c \in DOMAIN active_connections : Count(bc[1].got, c) = 1
    /\ \E c \in DOMAIN active_connections : Attempts(1, c) = 0

(***************************************************************************)
(* Properties of the stale cleanup (checked under ClosedTransportSpec)      *)
(***************************************************************************)
\* in this step the cleanup run by client c's connect is done with the first
\* of the stale clients it has left
CloseDone(c) == conn[c].pc = "closing" /\ conn'[c].stale # conn[c].stale

\* C29: each step of a cleanup takes the stale client it was closing out of
\* the registry, whether the close returned or raised and whether or not the
\* client was removed meanwhile, leaves every other connection registered
\* and unchanged and goes on to the next stale client or returns; the scan
\* itself adds the new connection and changes no other; when the cleanup has
\* returned none of the connections that were stale at its scan is
\* registered.
C29_CleanupRemovesStaleOnly ==
    /\ [][\A c \in Clients :
            /\ CloseDone(c) =>
                  /\ active_connections' = Without(active_connections, {conn[c].stale[1]})
                  /\ conn'[c].pc \in {"closing", "open"}
                  /\ Range(conn'[c].stale) \subseteq Range(conn[c].stale) \ {conn[c].stale[1]}
                  /\ (Range(conn[c].stale) \cap DOMAIN active_connections')
                        \subseteq Range(conn'[c].stale)
            /\ (conn'[c].ran /\ ~conn[c].ran) =>
                  /\ Range(conn'[c].stale) = conn'[c].due
                  /\ \A d \in DOMAIN active_connections \ {ClientId(c)} :
                        d \in DOMAIN active_connections'
                        /\ active_connections'[d] = active_connections[d]]_vars
    /\ [](\A c \in Clients :
            (conn[c].pc \in {"open", "closed"} /\ conn[c].ran) =>
                conn[c].due \cap DOMAIN active_connections = {})

\* a cleanup has returned that had identified two stale connections: the
\* transport of one had been closed by its client, so that the close raised
\* (no close code reached it), and the other had been removed by a
\* disconnect while the cleanup was suspended
C29_RaisedAndGone ==
    \E c \in Clients :
        /\ conn[c].pc = "open" /\ conn[c].ran
        /\ \E d \in conn[c].due : d \in broken /\ conn[d].code = 0
        /\ \E d \in conn[c].due : conn[d].disconnects > 0 /\ conn[d].code = 0 /\ d \notin broken

(***************************************************************************)
(* Properties of the CacheManager (checked under CacheSpec), continued     *)
(***************************************************************************)
IsCleanup == ccall.op = "cleanup_expired"

\* C30: cleanup_expired removes exactly the entries whose expiry is at or
\* before the time of the call and returns their number; every other entry
\* keeps its value and expiry and its place among the others in the recency
\* order, and the hits, misses, sets and evictions counters are as before.
C30_CleanupExpiredFrame ==
    IsCleanup =>
        /\ Removed = {k \in PreKeys : cpre.cache[k].expiry <= ccall.t}
        /\ cret = <<Cardinality(Removed)>>
        /\ DOMAIN cache = PreKeys \ Removed
        /\ \A k \in DOMAIN cache : cache[k] = cpre.cache[k]
        /\ cache_order = SelectSeq(cpre.order, LAMBDA k : k \notin Removed)
        /\ stats.hits = cpre.stats.hits
        /\ stats.misses = cpre.stats.misses
        /\ stats.sets = cpre.stats.sets
        /\ stats.evictions = cpre.stats.evictions

\* a cleanup has removed an entry that expired at the very time of the call
\* from between two entries that it has kept
C30_ExpiredAmongOthers ==
    /\ IsCleanup
    /\ \E i \in 2..(Len(cpre.order) - 1) :
          /\ cpre.order[i] \in Removed
          /\ cpre.cache[cpre.order[i]].expiry = ccall.t
          /\ cpre.order[i - 1] \notin Removed
          /\ cpre.order[i + 1] \notin Removed

\* C37: a step of a cleanup never removes a connection whose last ping is at
\* most StaleAfter old at the moment of the removal.
C37_FreshAtRemovalStays ==
    [][\A c \in Clients :
          (/\ CloseDone(c)
           /\ conn[c].stale[1] \in DOMAIN active_connections
           /\ wnow - active_connections[conn[c].stale[1]].last_ping <= StaleAfter)
             => conn[c].stale[1] \in DOMAIN active_connections']_vars

(***************************************************************************)
(* Properties of re-registration (checked under ReregisterSpec)            *)
(***************************************************************************)
\* in this step loop l starts an invocation of its task's callable
Invokes(l) == loops[l].pc # "call" /\ loops'[l].pc = "call"

Counted(ptasks, os, task_id) ==
    Status(ptasks, os, task_id).run_count + Status(ptasks, os, task_id).error_count

\* C38: once start_all_tasks has been called after the latest registration
\* of a task id, every invocation started for that id is made with the
\* PeriodicTask registered last (its callable and interval), and every
\* invocation that ends for that id is counted in the counters that the
\* status reports for the id.
C38_RestartUsesNewRegistration ==
    [][\A l \in 1..Len(loops) :
          LET t == objs[loops[l].obj].task_id
          IN  t \in restarted =>
                /\ Invokes(l) => loops[l].obj = periodic_tasks[t]
                /\ InvocationEnds(l) =>
                      Counted(periodic_tasks', objs', t) = Counted(periodic_tasks, objs, t) + 1]_vars

(***************************************************************************)
(* Properties of the BackgroundTaskManager (checked under TaskSpec),       *)
(* continued                                                               *)
(***************************************************************************)
\* C39: once shutdown has been called (the shutdown event is set), no step
\* starts an invocation of a registered callable: no loop enters a call and
\* no PeriodicTask's number of invocations grows, whether the loop was
\* waiting, in its initial delay, or has been created since.
C39_NoInvocationAfterShutdown ==
    [][shutdown_event =>
          /\ \A l \in 1..Len(loops) : ~Invokes(l)
          /\ \A o \in 1..Len(objs) : objs'[o].calls = objs[o].calls]_vars

\* after shutdown a loop has found the event set at its loop head and has
\* ended without having made any invocation
C39_LoopsEndedAtHead ==
    /\ shutdown_event
    /\ \E l \in 1..Len(loops) :
          loops[l].pc = "done" /\ objs[loops[l].obj].calls = 0

(***************************************************************************)
(* C36: after a client has closed its connection, the endpoint handler of  *)
(* the connection ends: its metrics loop stops and its receive task ends   *)
(***************************************************************************)
C36_HandlerEndsAfterClose ==
    \A c \in Clients :
        (ep[c].hung_up /\ ep[c].main # "none")
           ~> (ep[c].main = "ended" /\ ep[c].recv = "ended")

(***************************************************************************)
(* Properties of the metrics sender (checked under EndpointSpec)           *)
(***************************************************************************)
\* in this step a system_metrics message goes out to client c
MetricsGoOut(c) ==
    /\ Len(ep'[c].got) = Len(ep[c].got) + 1
    /\ ep'[c].got[Len(ep'[c].got)] = SystemMetrics

\* C32: a system_metrics message goes out to a connection only when the
\* previous one went out at least MetricsEvery seconds before, whichever of
\* the periodic tick and the client's request_metrics messages caused them.
C32_MetricsOncePerWindow ==
    [][\A c \in Clients :
          MetricsGoOut(c) => wnow - ep[c].last_sent >= MetricsEvery]_vars

(***************************************************************************)
(* Properties of the health monitor (checked under HealthSpec)             *)
(***************************************************************************)
RECURSIVE LevelChanges(_, _)
\* how often the level computed by the metrics loops changed, starting from last
LevelChanges(levels, last) ==
    IF levels = <<>> THEN 0
    ELSE (IF Head(levels) # last THEN 1 ELSE 0) + LevelChanges(Tail(levels), Head(levels))

\* C35: every change of the computed health level is announced by exactly one
\* health_change event and by at most one alert, whatever the interleaving of the
\* metrics loops; an unchanged level announces nothing
C35_OneEventPerLevelChange ==
    /\ Len(health_events) <= LevelChanges(computed, "healthy")
    /\ Len(alerts_store) <= LevelChanges(computed, "healthy")
    /\ (\A k \in Callers : hc[k].pc = "idle")
          => Len(health_events) = LevelChanges(computed, "healthy")

(***************************************************************************)
(* Properties of the CacheManager under threads (checked under             *)
(* CacheThreadSpec)                                                        *)
(***************************************************************************)
InBlock(t) == cthread[t].pc \notin {"idle", "lock"}

GetReturnsValue(t) ==
    /\ cthread[t].pc = "get_check"
    /\ cthread'[t].pc = "idle"
    /\ cthread'[t].ret \notin {<<>>, <<-1>>}

\* C31: calls made from several threads behave as if executed one at a time: while
\* a thread is inside a method's block no other thread changes the cache or its
\* counters, no call fails on a key that went away under it, the cache never holds
\* more than max_cache_size entries, and a value that get returns is the one the
\* cache holds, unexpired at the time get read the clock
C31_CallsRunOneAtATime ==
    /\ [](Len(cache_order) <= max_cache_size)
    /\ [](\A t \in CacheThreads : cthread[t].ret # <<-1>>)
    /\ [][\A t \in CacheThreads :
            /\ (InBlock(t) /\ cthread'[t] = cthread[t])
                  => UNCHANGED <<cache, cache_order, stats>>
            /\ GetReturnsValue(t) =>
                  /\ cthread[t].key \in DOMAIN cache
                  /\ cthread'[t].ret = <<cache[cthread[t].key].value>>
                  /\ ~IsExpired(cache[cthread[t].key], cthread[t].t)]_vars

\* a thread is about to store a new key into the last free place while another
\* thread waits at the lock to store another new key
C31_TwoSetsForOnePlace ==
    \E t \in CacheThreads, u \in CacheThreads :
        /\ cthread[t].pc = "set_store"
        /\ cthread[u].pc = "lock" /\ cthread[u].op = "set"
        /\ cthread[t].key # cthread[u].key
        /\ cthread[t].key \notin DOMAIN cache /\ cthread[u].key \notin DOMAIN cache
        /\ Len(cache_order) = max_cache_size - 1

(***************************************************************************)
(* Properties of the activity log (checked under ActivitySpec)             *)
(***************************************************************************)
\* C33: log_activity puts each new activity at the front, so when the log holds
\* more than max_entries activities, cleanup_old_logs leaves exactly the first
\* max_entries of them (the most recent ones) and removes the older ones
C33_CleanupKeepsMostRecent ==
    [][(acall' = "cleanup_old_logs" /\ acalls' # acalls /\ Len(activity_log) > max_entries)
          => activity_log' = KeepFirst(activity_log, max_entries)]_vars

(***************************************************************************)
(* Properties of cache_result (checked under WrapperSpec)                  *)
(***************************************************************************)
\* C34: a call of the wrapper whose key has an entry in the cache that has not
\* expired (stored by an earlier call with equal arguments, not evicted since)
\* returns the stored result and does not invoke the decorated function,
\* whatever that result is
C34_SecondCallReturnsCached ==
    [][\A a \in WrapperArgs :
          (/\ wrapper.pc = "idle" /\ rcalls' # rcalls /\ ccall'.key = a
           /\ a \in DOMAIN cache /\ ~IsExpired(cache[a], cnow))
             => /\ wrapped' = [key |-> a, result |-> cache[a].value]
                /\ wrapper'.pc = "idle"]_vars

(***************************************************************************)
(* Properties of the predict endpoint (checked under PredictSpec)          *)
(***************************************************************************)
\* C40: a predict request for a model_id that is not in the model store is answered
\* with status 404 and detail "Model not found", and changes neither a
\* predictions_made counter nor the prediction history, and broadcasts nothing
C40_UnknownModelNotFound ==
    [][\A r \in Requests :
          (/\ qcalls' # qcalls /\ request'[r] # request[r]
           /\ request'[r].model_id \notin DOMAIN models_store)
             => /\ request'[r].pc = "answered"
                /\ request'[r].status_code = 404
                /\ request'[r].detail = "Model not found"
                /\ UNCHANGED <<models_store, predictions_logged, prediction_events>>]_vars
=============================================================================
